---- MODULE Spec2Model ----
(***************************************************************************)
(* A model of RustSearch: the application's background rebuild and search  *)
(* workers (src/src/app.rs), the indexer and its cache codec               *)
(* (src/src/indexer.rs), the incremental USN synchronisation               *)
(* (src/src/windows_usn.rs) and the ranked search (src/src/searcher.rs).   *)
(*                                                                         *)
(* Strings are sequences of one-character strings.  Scores are the exact   *)
(* rational values of the f32 expressions, scaled by ScoreScale.           *)
(***************************************************************************)
EXTENDS Integers, Sequences, FiniteSets, TLC

VARIABLES
    \* ---- application threads (app.rs) ----
    index_seq,        \* FileSearchApp.index_seq   (AtomicU64)
    search_seq,       \* FileSearchApp.search_seq  (AtomicU64)
    indexer,          \* the FileIndexer behind Arc<Mutex<..>>
    indexer_lock,     \* 0 = free, n = held by the search worker of request n
    results,          \* FileSearchApp.results (Arc<Mutex<Vec<SearchResult>>>)
    index_stats,      \* FileSearchApp.index_stats
    main_pc,          \* position of the UI thread inside rebuild_index / perform_search
    index_workers,    \* the threads spawned by rebuild_index, keyed by their seq
    search_workers,   \* the threads spawned by perform_search, keyed by their seq
    installs,         \* history: every replace_index call made by a rebuild worker
    observed,         \* history: every Entry Store a search has read
    \* ---- cache codec (indexer.rs) ----
    cache_pc,         \* position inside save_cache, or "idle" / "crashed"
    cache_arg,        \* the `entries` argument of the running / last save_cache
    fs_dest,          \* the file at cache_path
    fs_tmp,           \* the file at cache_path.with_extension("tmp")
    prev_cache,       \* history: the file at cache_path when save_cache was entered
    cache_ops,        \* number of save_cache / load_cache calls made so far
    cache_saved,      \* the last call was a save_cache that returned Ok
    loaded,           \* the result of the last load_cache call
    \* ---- Searcher::search (searcher.rs) ----
    sr_pc,            \* position inside Searcher::search
    sr_entries,       \* indexer.get_entries()
    sr_pattern,       \* the `pattern` argument
    sr_options,       \* self.options
    sr_tokens,        \* the local `tokens`
    sr_heap,          \* the local `heap`, as the array of the BinaryHeap
    sr_idx,           \* number of entries the loop has visited
    sr_out,           \* the returned Vec<SearchResult>
    \* ---- Searcher::fuzzy_tokens_score (searcher.rs) ----
    fz_pc,            \* "call" before, "done" after the call
    fz_haystack,      \* the `haystack` argument
    fz_tokens,        \* the `tokens` argument
    fz_score,         \* the returned Option<f32>
    \* ---- try_apply_usn_incremental (windows_usn.rs) ----
    usn_pc,           \* position inside try_apply_usn_incremental
    usn_entries,      \* the `entries` argument (mutated in place)
    usn_states,       \* the `usn_states` argument (mutated in place)
    usn_is_indexing,  \* handles.is_indexing
    usn_i,            \* index in usn_states of the state the loop is at
    usn_page,         \* number of FSCTL_READ_USN_JOURNAL calls answered for it
    usn_events,       \* the local `events` of read_usn_events
    usn_result,       \* "none" while running, then "Ok" or the kind of the Err
    usn_volumes,      \* the volumes: per drive, the journal id and the journal pages
    usn_entries0,     \* history: `entries` when the call was made
    usn_applied,      \* history: per sync state, the events passed to apply_events_for_drive
    usn_bulk,         \* events in the local `events` beyond those usn_events lists one by one
    \* ---- apply_events_for_drive (windows_usn.rs) ----
    ap_pc,            \* position inside apply_events_for_drive
    ap_entries,       \* the `entries` argument (mutated in place)
    ap_state,         \* the `state` argument
    ap_events,        \* the `events` argument
    ap_frn_to_idx,    \* the local `frn_to_idx`
    ap_k,             \* number of events the loop has processed
    ap_before,        \* history: `entries` before the last processed event
    ap_entries0,      \* history: `entries` when the call was made
    \* ---- the two enumerations of a rebuild (indexer.rs, windows_usn.rs) ----
    en_kind,          \* "walk": build_index_snapshot, "drive": try_enumerate_drive_root
    en_pc,            \* "loop", "build" (after the drive loop) or "returned"
    en_input,         \* what the file system will yield: walk steps or MFT pages
    en_pos,           \* number of walk items or MFT pages processed
    en_all_entries,   \* the local `all_entries` of build_index_snapshot
    en_nodes,         \* the local `nodes` of try_enumerate_drive_root
    en_is_indexing,   \* handles.is_indexing
    en_cancelled,     \* history: the function returned from its cancellation branch
    en_result,        \* the returned value: Ok with the entries, or Err
    \* ---- path resolution after a bulk enumeration (windows_usn.rs) ----
    pt_pc,            \* "for" (the loop over nodes), "loop" (in build_full_path for good), "returned"
    pt_nodes,         \* the `nodes` map of try_enumerate_drive_root
    pt_order,         \* the keys nodes.iter() yields first, in that order
    pt_pos,           \* number of keys the `for` loop has taken
    pt_cache,         \* the local `path_cache`
    pt_entries,       \* the local `entries`
    pt_gave_up,       \* history: the keys for which build_full_path hit its depth guard
    \* ---- parsing one page of records (windows_usn.rs) ----
    pg_kind,          \* the record loop of try_enumerate_drive_root ("mft") or of
                      \* read_usn_events ("journal")
    pg_pc,            \* "loop", "done" (the while loop ended) or "panicked"
    pg_bytes_returned, \* bytes_returned of the DeviceIoControl call
    pg_offset,        \* the local `offset`
    pg_out,           \* the nodes inserted or events pushed for this page
    pg_log           \* history: one entry per header read

appVars == <<index_seq, search_seq, indexer, indexer_lock, results, index_stats,
             main_pc, index_workers, search_workers, installs, observed>>

cacheVars == <<cache_pc, cache_arg, fs_dest, fs_tmp, prev_cache, cache_ops,
               cache_saved, loaded>>

searchVars == <<sr_pc, sr_entries, sr_pattern, sr_options, sr_tokens, sr_heap,
                sr_idx, sr_out>>

fuzzyVars == <<fz_pc, fz_haystack, fz_tokens, fz_score>>

usnVars == <<usn_pc, usn_entries, usn_states, usn_is_indexing, usn_i, usn_page,
             usn_events, usn_result, usn_volumes, usn_entries0, usn_applied, usn_bulk>>

applyVars == <<ap_pc, ap_entries, ap_state, ap_events, ap_frn_to_idx, ap_k, ap_before,
               ap_entries0>>

enumVars == <<en_kind, en_pc, en_input, en_pos, en_all_entries, en_nodes, en_is_indexing,
              en_cancelled, en_result>>

pathVars == <<pt_pc, pt_nodes, pt_order, pt_pos, pt_cache, pt_entries, pt_gave_up>>

pageVars == <<pg_kind, pg_pc, pg_bytes_returned, pg_offset, pg_out, pg_log>>

nonAppVars == <<cacheVars, searchVars, fuzzyVars, usnVars, applyVars, enumVars,
                pathVars, pageVars>>
nonCacheVars == <<appVars, searchVars, fuzzyVars, usnVars, applyVars, enumVars,
                  pathVars, pageVars>>
nonSearchVars == <<appVars, cacheVars, fuzzyVars, usnVars, applyVars, enumVars,
                   pathVars, pageVars>>
nonFuzzyVars == <<appVars, cacheVars, searchVars, usnVars, applyVars, enumVars,
                  pathVars, pageVars>>
nonUsnVars == <<appVars, cacheVars, searchVars, fuzzyVars, applyVars, enumVars,
                pathVars, pageVars>>
nonApplyVars == <<appVars, cacheVars, searchVars, fuzzyVars, usnVars, enumVars,
                  pathVars, pageVars>>
nonEnumVars == <<appVars, cacheVars, searchVars, fuzzyVars, usnVars, applyVars,
                 pathVars, pageVars>>
nonPathVars == <<appVars, cacheVars, searchVars, fuzzyVars, usnVars, applyVars,
                 enumVars, pageVars>>

nonPageVars == <<appVars, cacheVars, searchVars, fuzzyVars, usnVars, applyVars, enumVars,
                 pathVars>>

vars == <<appVars, cacheVars, searchVars, fuzzyVars, usnVars, applyVars, enumVars, pathVars,
          pageVars>>

(***************************************************************************)
(* Bounds of the application model.                                        *)
(***************************************************************************)
MaxRebuilds == 2
MaxSearches == 2
NumItems == 2

Min(a, b) == IF a < b THEN a ELSE b
Max(a, b) == IF a > b THEN a ELSE b

(***************************************************************************)
(* Strings: sequences of one-character strings.                            *)
(***************************************************************************)
UpperToLower ==
    [c \in {"A", "B", "C", "D", "H", "T", "W", "X"} |->
        CASE c = "A" -> "a" [] c = "B" -> "b" [] c = "C" -> "c" [] c = "D" -> "d"
          [] c = "H" -> "h" [] c = "T" -> "t" [] c = "W" -> "w" [] c = "X" -> "x"]

\* Every character of the model is ASCII, so both branches of
\* lowercase_for_search are to_ascii_lowercase.
lowercase_for_search(s) ==
    [i \in 1..Len(s) |-> IF s[i] \in DOMAIN UpperToLower THEN UpperToLower[s[i]] ELSE s[i]]

starts_with(s, prefix) ==
    /\ Len(prefix) <= Len(s)
    /\ SubSeq(s, 1, Len(prefix)) = prefix

ends_with(s, suffix) ==
    /\ Len(suffix) <= Len(s)
    /\ SubSeq(s, Len(s) - Len(suffix) + 1, Len(s)) = suffix

\* str::contains: the needle occurs as a contiguous substring
contains(s, needle) ==
    \E i \in 0..(Len(s) - Len(needle)) : SubSeq(s, i + 1, i + Len(needle)) = needle

\* str::replace("\\", "/")
replace_backslash(s) ==
    [i \in 1..Len(s) |-> IF s[i] = "\\" THEN "/" ELSE s[i]]

\* index of the last '/' of s, 0 when there is none
LastSlash(s) ==
    LET idx == {i \in 1..Len(s) : s[i] = "/"} IN
    IF idx = {} THEN 0 ELSE CHOOSE i \in idx : \A j \in idx : j <= i

(***************************************************************************)
(* Files of the cache codec.  A v2 file is the 8 header bytes followed by   *)
(* the bincode payload, modelled as the sequence of DiskEntryV2 records it  *)
(* encodes; `complete` is FALSE for a file whose write was cut short.  A    *)
(* legacy v1 file has no header: it is the bincode of IndexCacheV1.         *)
(***************************************************************************)
NoFile ==
    [exists |-> FALSE, header |-> <<>>, disk |-> <<>>, v1_version |-> 0,
     v1_entries |-> <<>>, complete |-> FALSE]

NoLoad ==
    [called |-> FALSE, ok |-> FALSE, entries |-> <<>>, after_save |-> FALSE,
     original |-> <<>>]

AppParked ==
    /\ index_seq = 0
    /\ search_seq = 0
    /\ indexer = [entries |-> <<>>, total_files |-> 0, is_indexing |-> FALSE, progress |-> 0]
    /\ indexer_lock = 0
    /\ results = [req |-> 0, snapshot |-> <<>>]
    /\ index_stats = 0
    /\ main_pc = "off"
    /\ index_workers = <<>>
    /\ search_workers = <<>>
    /\ installs = {}
    /\ observed = {}

CacheParked ==
    /\ cache_pc = "off"
    /\ cache_arg = <<>>
    /\ fs_dest = NoFile
    /\ fs_tmp = NoFile
    /\ prev_cache = NoFile
    /\ cache_ops = 0
    /\ cache_saved = FALSE
    /\ loaded = NoLoad

SearchParked ==
    /\ sr_pc = "off"
    /\ sr_entries = <<>>
    /\ sr_pattern = <<>>
    /\ sr_options = [case_sensitive |-> FALSE, path_search |-> FALSE, fuzzy |-> TRUE,
                     max_results |-> 0]
    /\ sr_tokens = <<>>
    /\ sr_heap = <<>>
    /\ sr_idx = 0
    /\ sr_out = <<>>

FuzzyParked ==
    /\ fz_pc = "off"
    /\ fz_haystack = <<>>
    /\ fz_tokens = <<>>
    /\ fz_score = [some |-> FALSE, score |-> 0]

UsnParked ==
    /\ usn_pc = "off"
    /\ usn_entries = <<>>
    /\ usn_states = <<>>
    /\ usn_is_indexing = FALSE
    /\ usn_i = 0
    /\ usn_page = 0
    /\ usn_events = <<>>
    /\ usn_result = "none"
    /\ usn_volumes = <<>>
    /\ usn_entries0 = <<>>
    /\ usn_applied = <<>>
    /\ usn_bulk = 0

ApplyParked ==
    /\ ap_pc = "off"
    /\ ap_entries = <<>>
    /\ ap_state = [drive |-> "C", journal_id |-> 0, root_frn |-> 0, last_usn |-> 0]
    /\ ap_events = <<>>
    /\ ap_frn_to_idx = <<>>
    /\ ap_k = 0
    /\ ap_before = <<>>
    /\ ap_entries0 = <<>>

EnumParked ==
    /\ en_kind = "off"
    /\ en_pc = "off"
    /\ en_input = <<>>
    /\ en_pos = 0
    /\ en_all_entries = <<>>
    /\ en_nodes = <<>>
    /\ en_is_indexing = FALSE
    /\ en_cancelled = FALSE
    /\ en_result = [status |-> "none", entries |-> <<>>]

PathParked ==
    /\ pt_pc = "off"
    /\ pt_nodes = <<>>
    /\ pt_order = <<>>
    /\ pt_pos = 0
    /\ pt_cache = <<>>
    /\ pt_entries = <<>>
    /\ pt_gave_up = {}

PageParked ==
    /\ pg_kind = "off"
    /\ pg_pc = "off"
    /\ pg_bytes_returned = 0
    /\ pg_offset = 0
    /\ pg_out = <<>>
    /\ pg_log = <<>>

(***************************************************************************)
(* FileIndexer (indexer.rs).  The walk of a rebuild yields the items       *)
(* 1..NumItems in order; an entry list is a sequence of items.             *)
(***************************************************************************)
FileIndexer_new ==
    [entries |-> <<>>, total_files |-> 0, is_indexing |-> FALSE, progress |-> 0]

begin_indexing_clears(ix) ==
    [ix EXCEPT !.entries = <<>>, !.is_indexing = TRUE, !.progress = 0, !.total_files = 0]

begin_indexing(ix) ==
    [ix EXCEPT !.is_indexing = TRUE, !.progress = 0, !.total_files = 0]

replace_index(ix, all_entries) ==
    [ix EXCEPT !.entries = all_entries,
               !.total_files = Len(all_entries),
               !.progress = Len(all_entries),
               !.is_indexing = FALSE]

(***************************************************************************)
(* FileSearchApp::rebuild_index, UI thread part.                           *)
(***************************************************************************)
IdleIndexWorker == [pc |-> "none", all_entries |-> <<>>]
IdleSearchWorker == [pc |-> "none", search_results |-> [req |-> 0, snapshot |-> <<>>]]

RebuildFetchAdd ==
    /\ main_pc = "idle"
    /\ index_seq < MaxRebuilds
    /\ index_seq' = index_seq + 1
    /\ main_pc' = "rebuild_begin"
    /\ UNCHANGED <<nonAppVars, search_seq, indexer, indexer_lock, results, index_stats,
                   index_workers, search_workers, installs, observed>>

RebuildBegin ==
    /\ main_pc = "rebuild_begin"
    /\ indexer_lock = 0
    /\ indexer' = begin_indexing(indexer)
    /\ main_pc' = "rebuild_spawn"
    /\ UNCHANGED <<nonAppVars, index_seq, search_seq, indexer_lock, results, index_stats,
                   index_workers, search_workers, installs, observed>>

\* `seq` was captured by the closure at the fetch_add; the UI thread issues
\* no other request in between, so it still equals index_seq here.
RebuildSpawn ==
    /\ main_pc = "rebuild_spawn"
    /\ index_workers' = [index_workers EXCEPT ![index_seq] =
                            [pc |-> "walk", all_entries |-> <<>>]]
    /\ main_pc' = "idle"
    /\ UNCHANGED <<nonAppVars, index_seq, search_seq, indexer, indexer_lock, results,
                   index_stats, search_workers, installs, observed>>

(***************************************************************************)
(* The rebuild worker: build_index_snapshot, the generation check, and     *)
(* replace_index under the indexer lock.                                   *)
(***************************************************************************)
IndexWalk(w) ==
    /\ index_workers[w].pc = "walk"
    /\ LET all == index_workers[w].all_entries IN
         IF Len(all) = NumItems
         THEN \* the iterator is exhausted: store the final progress and return
              /\ indexer' = [indexer EXCEPT !.progress = Len(all)]
              /\ index_workers' = [index_workers EXCEPT ![w].pc = "built"]
         ELSE IF ~indexer.is_indexing
         THEN \* cancelled: return what has been collected
              /\ index_workers' = [index_workers EXCEPT ![w].pc = "built"]
              /\ UNCHANGED indexer
         ELSE /\ index_workers' = [index_workers EXCEPT
                                      ![w].all_entries = Append(all, Len(all) + 1)]
              /\ UNCHANGED indexer
    /\ UNCHANGED <<nonAppVars, index_seq, search_seq, indexer_lock, results, index_stats,
                   main_pc, search_workers, installs, observed>>

IndexSuperseded(w) == index_seq /= w

IndexCheckSeq(w) ==
    /\ index_workers[w].pc = "built"
    /\ index_workers' = [index_workers EXCEPT ![w].pc =
                            IF IndexSuperseded(w) THEN "dropped" ELSE "install"]
    /\ UNCHANGED <<nonAppVars, index_seq, search_seq, indexer, indexer_lock, results,
                   index_stats, main_pc, search_workers, installs, observed>>

IndexInstall(w) ==
    /\ index_workers[w].pc = "install"
    /\ indexer_lock = 0
    /\ indexer' = replace_index(indexer, index_workers[w].all_entries)
    /\ installs' = installs \cup
                     {[seq |-> w, current |-> index_seq,
                       entries |-> index_workers[w].all_entries]}
    /\ index_workers' = [index_workers EXCEPT ![w].pc = "stats"]
    /\ UNCHANGED <<nonAppVars, index_seq, search_seq, indexer_lock, results, index_stats,
                   main_pc, search_workers, observed>>

IndexStoreStats(w) ==
    /\ index_workers[w].pc = "stats"
    /\ index_stats' = w
    /\ index_workers' = [index_workers EXCEPT ![w].pc = "done"]
    /\ UNCHANGED <<nonAppVars, index_seq, search_seq, indexer, indexer_lock, results,
                   main_pc, search_workers, installs, observed>>

(***************************************************************************)
(* FileSearchApp::perform_search.  The worker holds the indexer lock from  *)
(* its first statement to the end of the closure.  The output of a search  *)
(* is determined by the request and the Entry Store it read.               *)
(***************************************************************************)
SearchFetchAdd ==
    /\ main_pc = "idle"
    /\ search_seq < MaxSearches
    /\ search_seq' = search_seq + 1
    /\ main_pc' = "search_spawn"
    /\ UNCHANGED <<nonAppVars, index_seq, indexer, indexer_lock, results, index_stats,
                   index_workers, search_workers, installs, observed>>

SearchSpawn ==
    /\ main_pc = "search_spawn"
    /\ search_workers' = [search_workers EXCEPT ![search_seq].pc = "start"]
    /\ main_pc' = "idle"
    /\ UNCHANGED <<nonAppVars, index_seq, search_seq, indexer, indexer_lock, results,
                   index_stats, index_workers, installs, observed>>

SearchRun(w) ==
    /\ search_workers[w].pc = "start"
    /\ indexer_lock = 0
    /\ indexer_lock' = w
    /\ search_workers' = [search_workers EXCEPT
                             ![w].pc = "check",
                             ![w].search_results =
                                 [req |-> w, snapshot |-> indexer.entries]]
    /\ observed' = observed \cup {indexer.entries}
    /\ UNCHANGED <<nonAppVars, index_seq, search_seq, indexer, results, index_stats,
                   main_pc, index_workers, installs>>

SearchNeverSuperseded(w) == FALSE

SearchSuperseded(w) == search_seq /= w

SearchCheckSeq(w) ==
    /\ search_workers[w].pc = "check"
    /\ IF SearchSuperseded(w)
       THEN /\ search_workers' = [search_workers EXCEPT ![w].pc = "dropped"]
            /\ indexer_lock' = 0
       ELSE /\ search_workers' = [search_workers EXCEPT ![w].pc = "write"]
            /\ UNCHANGED indexer_lock
    /\ UNCHANGED <<nonAppVars, index_seq, search_seq, indexer, results, index_stats,
                   main_pc, index_workers, installs, observed>>

SearchWrite(w) ==
    /\ search_workers[w].pc = "write"
    /\ results' = search_workers[w].search_results
    /\ indexer_lock' = 0
    /\ search_workers' = [search_workers EXCEPT ![w].pc = "done"]
    /\ UNCHANGED <<nonAppVars, index_seq, search_seq, indexer, index_stats,
                   main_pc, index_workers, installs, observed>>

(***************************************************************************)
(* FileSearchApp::new: the default state, then one rebuild_index call.     *)
(***************************************************************************)
Init ==
    /\ index_seq = 1
    /\ search_seq = 0
    /\ indexer = begin_indexing(FileIndexer_new)
    /\ indexer_lock = 0
    /\ results = [req |-> 0, snapshot |-> <<>>]
    /\ index_stats = 0
    /\ main_pc = "idle"
    /\ index_workers = [w \in 1..MaxRebuilds |->
                          IF w = 1 THEN [pc |-> "walk", all_entries |-> <<>>]
                          ELSE IdleIndexWorker]
    /\ search_workers = [w \in 1..MaxSearches |-> IdleSearchWorker]
    /\ installs = {}
    /\ observed = {}
    /\ CacheParked
    /\ SearchParked
    /\ FuzzyParked
    /\ UsnParked
    /\ ApplyParked
    /\ EnumParked
    /\ PathParked
    /\ PageParked

Next ==
    \/ RebuildFetchAdd
    \/ RebuildBegin
    \/ RebuildSpawn
    \/ SearchFetchAdd
    \/ SearchSpawn
    \/ \E w \in 1..MaxRebuilds : IndexWalk(w)
    \/ \E w \in 1..MaxRebuilds : IndexCheckSeq(w)
    \/ \E w \in 1..MaxRebuilds : IndexInstall(w)
    \/ \E w \in 1..MaxRebuilds : IndexStoreStats(w)
    \/ \E w \in 1..MaxSearches : SearchRun(w)
    \/ \E w \in 1..MaxSearches : SearchCheckSeq(w)
    \/ \E w \in 1..MaxSearches : SearchWrite(w)

Spec == Init /\ [][Next]_vars

(***************************************************************************)
(* Claims about the application threads.                                   *)
(***************************************************************************)

\* C1 (as claimed): every replace_index call of a rebuild worker is made by
\* the worker of the most recently issued rebuild, i.e. the worker's seq
\* equals index_seq at the moment it installs its result.
C1_OnlyNewestInstalls ==
    \A r \in installs : r.seq = r.current

SearchQuiescent ==
    /\ main_pc /= "search_spawn"
    /\ search_seq >= 1
    /\ \A w \in 1..MaxSearches : search_workers[w].pc \in {"none", "done", "dropped"}

\* C2: once every search worker has finished, the shared result list holds
\* the output of the most recently issued search request.
C2_LastRequestWins ==
    SearchQuiescent => results.req = search_seq

\* C2 witness: two requests were issued, the older worker ran late and
\* dropped its output, and all workers have finished.
C2_Witness ==
    /\ SearchQuiescent
    /\ search_seq >= 2
    /\ \E w \in 1..MaxSearches : w < search_seq /\ search_workers[w].pc = "dropped"
    /\ results.req = search_seq

C3_Snapshots ==
    observed \subseteq ({FileIndexer_new.entries} \cup {r.entries : r \in installs})

C3_OnlyReplaceIndexPublishes ==
    indexer'.entries /= indexer.entries =>
        \E w \in 1..MaxRebuilds :
            /\ index_workers[w].pc = "install"
            /\ index_workers'[w].pc = "stats"
            /\ indexer'.entries = index_workers[w].all_entries

C3_BeginAndWalkKeepSnapshot ==
    \/ main_pc = "rebuild_begin" /\ main_pc' = "rebuild_spawn"
    \/ \E w \in 1..MaxRebuilds :
          index_workers[w].pc = "walk" /\ index_workers'[w] /= index_workers[w]
    => indexer'.entries = indexer.entries

\* C3: the Entry Store a search reads is always the initial snapshot or a
\* complete list handed to replace_index; the published snapshot changes
\* only in replace_index, and begin_indexing and a running enumeration
\* leave it unchanged.
C3_NoPartialIndex ==
    /\ []C3_Snapshots
    /\ [][C3_OnlyReplaceIndexPublishes /\ C3_BeginAndWalkKeepSnapshot]_vars

\* C3 witness: a search has read an installed, non-empty snapshot while a
\* later rebuild has begun and its worker holds a partly built list.
C3_Witness ==
    \E s \in 1..MaxSearches, w \in 1..MaxRebuilds :
        /\ search_workers[s].pc = "check"
        /\ search_workers[s].search_results.snapshot /= <<>>
        /\ index_workers[w].pc = "walk"
        /\ Len(index_workers[w].all_entries) = 1
        /\ indexer.is_indexing

(***************************************************************************)
(* Entries as the directory walk builds them (build_index_snapshot).       *)
(* An item of the walk is the path WalkDir reports (the root as it was     *)
(* given, a child as parent joined with its file name) and its metadata.   *)
(***************************************************************************)
Separators(windows) == IF windows THEN {"/", "\\"} ELSE {"/"}

RECURSIVE StripTrailing(_, _)
\* Path::components ignores trailing separators and trailing "." components
StripTrailing(p, windows) ==
    IF Len(p) = 0 THEN p
    ELSE IF p[Len(p)] \in Separators(windows)
    THEN StripTrailing(SubSeq(p, 1, Len(p) - 1), windows)
    ELSE IF Len(p) >= 2 /\ p[Len(p)] = "." /\ p[Len(p) - 1] \in Separators(windows)
    THEN StripTrailing(SubSeq(p, 1, Len(p) - 1), windows)
    ELSE p

\* path.file_name().and_then(|n| n.to_str()).unwrap_or("")
path_file_name(p, windows) ==
    LET q == StripTrailing(p, windows)
        seps == {i \in 1..Len(q) : q[i] \in Separators(windows)}
        cut == IF seps = {} THEN 0 ELSE CHOOSE i \in seps : \A j \in seps : j <= i
        comp == SubSeq(q, cut + 1, Len(q))
    IN  IF Len(q) = 0 THEN <<>>
        ELSE IF comp = <<".">> \/ comp = <<".", ".">> THEN <<>>
        ELSE IF windows /\ cut = 0 /\ Len(comp) = 2 /\ comp[2] = ":" THEN <<>>
        ELSE comp

\* is_path_hidden: the attribute bits on Windows, a leading dot elsewhere
is_path_hidden(name, windows, attr_hidden) ==
    IF windows THEN attr_hidden ELSE Len(name) > 0 /\ name[1] = "."

walk_entry(item) ==
    LET name == path_file_name(item.path, item.windows)
        path_str == replace_backslash(item.path)
    IN  [name |-> name,
         name_lower |-> lowercase_for_search(name),
         path |-> path_str,
         path_lower |-> lowercase_for_search(path_str),
         size |-> item.size,
         modified_ms |-> 0,
         is_dir |-> item.is_dir,
         is_hidden |-> is_path_hidden(name, item.windows, item.attr_hidden)]

WalkItem(path, windows, size, is_dir, attr_hidden) ==
    [path |-> path, windows |-> windows, size |-> size, is_dir |-> is_dir,
     attr_hidden |-> attr_hidden]

\* What a walk can report: roots as the user or default_index_paths gives
\* them ("/", "C:\", "/a/", ".") and children below them.
WalkItems ==
    { WalkItem(<<"/">>, FALSE, 0, TRUE, FALSE),
      WalkItem(<<"/", "a", "/">>, FALSE, 0, TRUE, FALSE),
      WalkItem(<<"/", "a", "/", "B", ".", "t">>, FALSE, 300, FALSE, FALSE),
      WalkItem(<<".">>, FALSE, 0, TRUE, FALSE),
      WalkItem(<<"C", ":", "\\", "A">>, TRUE, 300, FALSE, TRUE) }

WalkEntries == { walk_entry(item) : item \in WalkItems }

\* What the two nested loops of build_index_snapshot meet, in order: a root
\* for which exists() is false ("missing_root"), an Err that WalkDir yields
\* for a directory entry it cannot read ("dir_error"), or a DirEntry
\* ("entry") whose metadata() succeeds or fails.
WalkStep(kind, metadata_ok, item) ==
    [kind |-> kind, metadata_ok |-> metadata_ok, item |-> item]

WalkSteps ==
    { WalkStep("entry", TRUE, item) : item \in WalkItems }
    \cup { WalkStep("missing_root", FALSE, WalkItem(<<"/", "x">>, FALSE, 0, TRUE, FALSE)),
           WalkStep("dir_error", FALSE, WalkItem(<<"/", "a", "/", "d">>, FALSE, 0, TRUE, FALSE)),
           WalkStep("entry", FALSE, WalkItem(<<"/", "a", "/", "w">>, FALSE, 300, FALSE, FALSE)) }

\* a build that a missing root, an unreadable directory entry or a failed
\* metadata() call ends
walk_step_aborting(all_entries, step) ==
    IF step.kind = "entry" /\ step.metadata_ok
    THEN [entries |-> Append(all_entries, walk_entry(step.item)), aborted |-> FALSE]
    ELSE [entries |-> all_entries, aborted |-> TRUE]

\* one step of the loops: `continue` for a missing root, filter_map(|e| e.ok())
\* for an Err, `Err(_) => continue` for metadata(), otherwise the push
walk_step(all_entries, step) ==
    IF step.kind = "entry" /\ step.metadata_ok
    THEN [entries |-> Append(all_entries, walk_entry(step.item)), aborted |-> FALSE]
    ELSE [entries |-> all_entries, aborted |-> FALSE]

(***************************************************************************)
(* The cache codec (indexer.rs).                                           *)
(***************************************************************************)
MaxCacheEntries == 2
MaxCacheOps == 2

CACHE_MAGIC == <<82, 83, 73, 88>>
CACHE_HEADER_LEN == 8
CACHE_V2 == 2
CACHE_ENCODING_VARINT == 1

DiskEntryV2_from_entry(entry) ==
    [path |-> entry.path,
     size |-> entry.size,
     modified_ms |-> entry.modified_ms,
     flags |-> (IF entry.is_dir THEN 1 ELSE 0) + (IF entry.is_hidden THEN 2 ELSE 0)]

file_name_from_normalized_path(path) ==
    IF ends_with(path, <<"/">>) THEN <<>>
    ELSE SubSeq(path, LastSlash(path) + 1, Len(path))

DiskEntryV2_to_entry(d) ==
    LET name == file_name_from_normalized_path(d.path) IN
    [name |-> name,
     name_lower |-> lowercase_for_search(name),
     path |-> d.path,
     path_lower |-> lowercase_for_search(d.path),
     size |-> d.size,
     modified_ms |-> d.modified_ms,
     is_dir |-> (d.flags % 2) /= 0,
     is_hidden |-> ((d.flags \div 2) % 2) /= 0]

\* the bytes save_cache assembles
CacheBytes(entries) ==
    [exists |-> TRUE,
     header |-> CACHE_MAGIC \o <<CACHE_V2, CACHE_ENCODING_VARINT, 0, 0>>,
     disk |-> [i \in 1..Len(entries) |-> DiskEntryV2_from_entry(entries[i])],
     v1_version |-> 0, v1_entries |-> <<>>, complete |-> TRUE]

\* a file written by the legacy format: bincode of IndexCacheV1
LegacyBytes(version, entries) ==
    [exists |-> TRUE, header |-> <<>>, disk |-> <<>>,
     v1_version |-> version, v1_entries |-> entries, complete |-> TRUE]

\* File::create has truncated the file and no byte has been written yet
EmptyFile ==
    [exists |-> TRUE, header |-> <<>>, disk |-> <<>>, v1_version |-> 0,
     v1_entries |-> <<>>, complete |-> FALSE]

LoadErr == [ok |-> FALSE, entries |-> <<>>, legacy |-> FALSE]

load_cache_v2(file) ==
    IF Len(file.header) < CACHE_HEADER_LEN THEN LoadErr
    ELSE IF SubSeq(file.header, 1, 4) /= CACHE_MAGIC THEN LoadErr
    ELSE IF file.header[5] /= CACHE_V2 THEN LoadErr
    ELSE IF file.header[6] /= CACHE_ENCODING_VARINT THEN LoadErr
    ELSE IF ~file.complete THEN LoadErr
    ELSE [ok |-> TRUE,
          entries |-> [i \in 1..Len(file.disk) |-> DiskEntryV2_to_entry(file.disk[i])],
          legacy |-> FALSE]

load_cache(file) ==
    IF ~file.exists THEN LoadErr
    ELSE IF Len(file.header) >= CACHE_HEADER_LEN /\ SubSeq(file.header, 1, 4) = CACHE_MAGIC
    THEN load_cache_v2(file)
    ELSE IF ~file.complete THEN LoadErr
    ELSE IF file.v1_version /= 1 THEN LoadErr
    ELSE [ok |-> TRUE, entries |-> file.v1_entries, legacy |-> TRUE]

RECURSIVE SeqsUpTo(_, _)
SeqsUpTo(S, n) ==
    IF n = 0 THEN {<<>>}
    ELSE LET shorter == SeqsUpTo(S, n - 1) IN
         shorter \cup {Append(q, x) : q \in shorter, x \in S}

EntryLists == SeqsUpTo(WalkEntries, MaxCacheEntries)

InitialCacheFiles ==
    { NoFile,
      CacheBytes(<<walk_entry(WalkItem(<<"/", "a">>, FALSE, 0, TRUE, FALSE))>>),
      [CacheBytes(<<>>) EXCEPT !.header = CACHE_MAGIC \o <<1, CACHE_ENCODING_VARINT, 0, 0>>],
      LegacyBytes(1, <<walk_entry(WalkItem(<<"C", ":", "\\", "A">>, TRUE, 300, FALSE, TRUE))>>),
      \* a legacy file whose stored name_lower is not the lowercase of its name
      LegacyBytes(1, <<[walk_entry(WalkItem(<<"/", "a", "/", "B", ".", "t">>, FALSE, 300,
                                            FALSE, FALSE))
                           EXCEPT !.name_lower = <<"B", ".", "t">>]>>),
      LegacyBytes(2, <<>>) }

SaveCacheEnter ==
    /\ cache_pc = "idle"
    /\ cache_ops < MaxCacheOps
    /\ \E entries \in EntryLists : cache_arg' = entries
    /\ cache_pc' = "create_dir_all"
    /\ prev_cache' = fs_dest
    /\ cache_ops' = cache_ops + 1
    /\ cache_saved' = FALSE
    /\ UNCHANGED <<fs_dest, fs_tmp, loaded>>
    /\ UNCHANGED nonCacheVars

\* every file-system call may fail; `?` then returns the error
SaveCreateDirAll ==
    /\ cache_pc = "create_dir_all"
    /\ \E io_ok \in BOOLEAN : cache_pc' = IF io_ok THEN "write_create" ELSE "idle"
    /\ UNCHANGED <<cache_arg, fs_dest, fs_tmp, prev_cache, cache_ops, cache_saved, loaded>>
    /\ UNCHANGED nonCacheVars

\* std::fs::write, first half: create or truncate the temporary file
SaveWriteCreate ==
    /\ cache_pc = "write_create"
    /\ \E io_ok \in BOOLEAN :
         IF io_ok THEN fs_tmp' = EmptyFile /\ cache_pc' = "write_all"
         ELSE UNCHANGED fs_tmp /\ cache_pc' = "idle"
    /\ UNCHANGED <<cache_arg, fs_dest, prev_cache, cache_ops, cache_saved, loaded>>
    /\ UNCHANGED nonCacheVars

\* std::fs::write, second half: write_all of the bytes
SaveWriteAll ==
    /\ cache_pc = "write_all"
    /\ \E io_ok \in BOOLEAN :
         IF io_ok THEN fs_tmp' = CacheBytes(cache_arg) /\ cache_pc' = "remove_file"
         ELSE fs_tmp' = [CacheBytes(cache_arg) EXCEPT !.disk = <<>>, !.complete = FALSE]
              /\ cache_pc' = "idle"
    /\ UNCHANGED <<cache_arg, fs_dest, prev_cache, cache_ops, cache_saved, loaded>>
    /\ UNCHANGED nonCacheVars

\* let _ = std::fs::remove_file(cache_path): a failure is ignored
SaveRemoveFile ==
    /\ cache_pc = "remove_file"
    /\ \E io_ok \in BOOLEAN : fs_dest' = IF io_ok THEN NoFile ELSE fs_dest
    /\ cache_pc' = "rename"
    /\ UNCHANGED <<cache_arg, fs_tmp, prev_cache, cache_ops, cache_saved, loaded>>
    /\ UNCHANGED nonCacheVars

SaveRename ==
    /\ cache_pc = "rename"
    /\ \E io_ok \in BOOLEAN :
         IF io_ok
         THEN fs_dest' = fs_tmp /\ fs_tmp' = NoFile /\ cache_saved' = TRUE
         ELSE UNCHANGED <<fs_dest, fs_tmp, cache_saved>>
    /\ cache_pc' = "idle"
    /\ UNCHANGED <<cache_arg, prev_cache, cache_ops, loaded>>
    /\ UNCHANGED nonCacheVars

\* the process dies between two file-system calls of save_cache
Crash ==
    /\ cache_pc \in {"create_dir_all", "write_create", "write_all", "remove_file", "rename"}
    /\ cache_pc' = "crashed"
    /\ UNCHANGED <<cache_arg, fs_dest, fs_tmp, prev_cache, cache_ops, cache_saved, loaded>>
    /\ UNCHANGED nonCacheVars

\* load_cache; a legacy file that was read is re-written by save_cache
LoadCache ==
    /\ cache_pc = "idle"
    /\ cache_ops < MaxCacheOps
    /\ cache_ops' = cache_ops + 1
    /\ LET r == load_cache(fs_dest) IN
         /\ loaded' = [called |-> TRUE, ok |-> r.ok, entries |-> r.entries,
                       after_save |-> cache_saved, original |-> cache_arg]
         /\ IF r.ok /\ r.legacy
            THEN /\ cache_arg' = r.entries
                 /\ prev_cache' = fs_dest
                 /\ cache_pc' = "create_dir_all"
            ELSE UNCHANGED <<cache_arg, prev_cache, cache_pc>>
    /\ cache_saved' = FALSE
    /\ UNCHANGED <<fs_dest, fs_tmp>>
    /\ UNCHANGED nonCacheVars

InitCache ==
    /\ AppParked
    /\ SearchParked
    /\ FuzzyParked
    /\ UsnParked
    /\ ApplyParked
    /\ EnumParked
    /\ PathParked
    /\ PageParked
    /\ cache_pc = "idle"
    /\ cache_arg = <<>>
    /\ fs_dest \in InitialCacheFiles
    /\ fs_tmp = NoFile
    /\ prev_cache = fs_dest
    /\ cache_ops = 0
    /\ cache_saved = FALSE
    /\ loaded = NoLoad

NextCache ==
    \/ SaveCacheEnter
    \/ SaveCreateDirAll
    \/ SaveWriteCreate
    \/ SaveWriteAll
    \/ SaveRemoveFile
    \/ SaveRename
    \/ Crash
    \/ LoadCache

SpecCache == InitCache /\ [][NextCache]_vars

(***************************************************************************)
(* Claims about the cache codec.                                           *)
(***************************************************************************)

\* C5 (as claimed): whenever save_cache is interrupted after any of its
\* steps, the destination holds the complete previous cache or the complete
\* new cache, never a missing or partial file.
C5_CrashAtomic ==
    cache_pc = "crashed" => fs_dest \in {prev_cache, CacheBytes(cache_arg)}

SameEntry(a, b) ==
    /\ a.path = b.path
    /\ a.size = b.size
    /\ a.modified_ms = b.modified_ms
    /\ a.is_dir = b.is_dir
    /\ a.is_hidden = b.is_hidden
    /\ a.name = b.name
    /\ a.name_lower = b.name_lower
    /\ a.path_lower = b.path_lower

\* C6 (as claimed): load_cache after a successful save_cache returns the
\* saved entries in the same order, with equal path, size, modified_ms,
\* is_dir, is_hidden and equal recomputed name, name_lower and path_lower.
C6_RoundTrip ==
    loaded.after_save =>
        /\ loaded.ok
        /\ Len(loaded.entries) = Len(loaded.original)
        /\ \A i \in 1..Len(loaded.original) :
              SameEntry(loaded.entries[i], loaded.original[i])

(***************************************************************************)
(* The search engine (searcher.rs).  A score is the exact value of the     *)
(* f32 expression multiplied by ScoreScale, which every denominator that   *)
(* can occur (a span, 1 + first, 10, 100) divides.  Positions are 0-based  *)
(* character indices as in the source.                                     *)
(***************************************************************************)
MaxHaystackLen == 8

RECURSIVE Gcd(_, _)
Gcd(a, b) == IF b = 0 THEN a ELSE Gcd(b, a % b)

RECURSIVE LcmUpTo(_)
LcmUpTo(n) == IF n <= 1 THEN 1 ELSE LET l == LcmUpTo(n - 1) IN (l * n) \div Gcd(l, n)

ScoreScale == 100 * LcmUpTo(MaxHaystackLen)

None == [some |-> FALSE, score |-> 0]
Some(x) == [some |-> TRUE, score |-> x]

NoFuzzyMatch == [found |-> FALSE, first |-> 0, last |-> 0, gaps |-> 0]

RECURSIVE FuzzyScan(_, _, _, _, _, _, _)
\* the loop of fuzzy_match: i is the 0-based index of the next haystack
\* character, k the 1-based index of `current` in the needle, has_prev
\* whether `prev` (and `first`) are set
FuzzyScan(haystack, needle, i, k, first, prev, gaps) ==
    IF i >= Len(haystack) THEN NoFuzzyMatch
    ELSE IF haystack[i + 1] /= needle[k]
    THEN FuzzyScan(haystack, needle, i + 1, k, first, prev, gaps)
    ELSE LET first2 == IF first < 0 THEN i ELSE first
             gaps2 == IF prev >= 0 THEN gaps + Max(i - (prev + 1), 0) ELSE gaps
         IN  IF k < Len(needle)
             THEN FuzzyScan(haystack, needle, i + 1, k + 1, first2, i, gaps2)
             ELSE [found |-> TRUE, first |-> first2, last |-> i, gaps |-> gaps2]

fuzzy_match(haystack, needle) ==
    IF Len(needle) = 0 THEN NoFuzzyMatch
    ELSE FuzzyScan(haystack, needle, 0, 1, -1, -1, 0)

NoTokenMatch ==
    [found |-> FALSE, query_index |-> 0, first |-> 0, last |-> 0, score |-> 0,
     needle_len |-> 0]

\* a token match that accepts short tokens matched with gaps
ShortTokenWithGapsAllowed(needle_len, gaps) == FALSE

\* needle_len <= 2 && m.gaps != 0
ShortTokenWithGaps(needle_len, gaps) == needle_len <= 2 /\ gaps /= 0

\* fuzzy_token_match after `let m = fuzzy_match(haystack, token)?`
token_match_of(m, needle_len, query_index) ==
    LET span_usize == Max(Max(m.last - m.first, 0) + 1, 1) IN
    IF ~m.found THEN NoTokenMatch
    ELSE IF ShortTokenWithGaps(needle_len, m.gaps) THEN NoTokenMatch
    ELSE IF span_usize > needle_len * 10 + 20 THEN NoTokenMatch
    ELSE LET compact60 == IF needle_len >= span_usize THEN 60 * ScoreScale
                          ELSE (60 * ScoreScale * needle_len) \div span_usize
             start_bonus == (30 * ScoreScale) \div (1 + m.first)
             gap_penalty == (m.gaps * 3 * ScoreScale) \div 2
             score == 40 * ScoreScale + compact60 + start_bonus - gap_penalty
         IN  [found |-> TRUE, query_index |-> query_index,
              first |-> m.first, last |-> m.last,
              score |-> IF m.gaps = 0 THEN score + 20 * ScoreScale ELSE score,
              needle_len |-> needle_len]

\* a token match that looks for token number query_index only from haystack
\* position query_index on
fuzzy_token_match_from(haystack, token, query_index) ==
    IF Len(token) = 0 THEN NoTokenMatch
    ELSE token_match_of(fuzzy_match(SubSeq(haystack, query_index + 1, Len(haystack)), token),
                        Max(Len(token), 1), query_index)

fuzzy_token_match(haystack, token, query_index) ==
    IF Len(token) = 0 THEN NoTokenMatch
    ELSE token_match_of(fuzzy_match(haystack, token), Max(Len(token), 1), query_index)

\* the match arm of fuzzy_tokens_score: how many tokens must match
RequiredAll(n) == n

Required(n) == IF n <= 2 THEN n ELSE n - 1

\* by_pos.sort_by(|a, b| a.1.cmp(&b.1).then(a.0.cmp(&b.0)))
ByPosBefore(a, b) ==
    a.first < b.first \/ (a.first = b.first /\ a.query_index < b.query_index)

\* the order adjustment: no inversion bonus and penalty
OrderAdjustNone(inversions) == 0

\* score -= inversions * 16.0; if inversions == 0 { score += 10.0 }
OrderAdjust(inversions) ==
    (IF inversions = 0 THEN 10 * ScoreScale ELSE 0) - inversions * 16 * ScoreScale

RECURSIVE SumOver(_, _)
SumOver(f, n) == IF n = 0 THEN 0 ELSE f[n] + SumOver(f, n - 1)

\* fuzzy_tokens_score from `if matches.len() < 2` on: `score` so far, the
\* matches, and the matches sorted into by_pos
fuzzy_order_score(score, matches, by_pos) ==
    LET n == Len(matches)
        min_first == CHOOSE f \in {matches[i].first : i \in 1..n} :
                        \A i \in 1..n : f <= matches[i].first
        max_last == CHOOSE l \in {matches[i].last : i \in 1..n} :
                        \A i \in 1..n : l >= matches[i].last
        total == Max(SumOver([i \in 1..n |-> matches[i].needle_len], n), 1)
        span == Max(Max(max_last - min_first, 0) + 1, 1)
        compact90 == IF total >= span THEN 90 * ScoreScale
                     ELSE (90 * ScoreScale * total) \div span
        spread == (Max(span - total, 0) * 6 * ScoreScale) \div 10
        inversions == Cardinality({p \in (1..n) \X (1..n) :
                          p[1] < p[2]
                          /\ by_pos[p[1]].query_index > by_pos[p[2]].query_index})
        gap_sum == SumOver([i \in 1..(n - 1) |->
                          Max(by_pos[i + 1].first - (by_pos[i].last + 1), 0)], n - 1)
    IN  score + compact90 - spread + OrderAdjust(inversions)
            - (gap_sum * 7 * ScoreScale) \div 10

\* fuzzy_tokens_score after the loop over the tokens
fuzzy_matches_score(num_tokens, required, matches) ==
    LET missing == num_tokens - Len(matches)
        base == SumOver([i \in 1..Len(matches) |-> matches[i].score], Len(matches))
        score == base + Len(matches) * 18 * ScoreScale - missing * 28 * ScoreScale
    IN  IF Len(matches) < required THEN None
        ELSE IF Len(matches) < 2 THEN Some(score)
        ELSE Some(fuzzy_order_score(score, matches, SortSeq(matches, ByPosBefore)))

fuzzy_tokens_score(haystack, tokens) ==
    IF Len(tokens) = 0 THEN None
    ELSE fuzzy_matches_score(
             Len(tokens), Required(Len(tokens)),
             SelectSeq([q \in 1..Len(tokens) |->
                           fuzzy_token_match(haystack, tokens[q], q - 1)],
                       LAMBDA m : m.found))

substring_match_score(haystack, token) ==
    IF Len(token) = 0 THEN None
    ELSE IF starts_with(haystack, token) THEN Some(80 * ScoreScale)
    ELSE IF contains(haystack, token) THEN Some(50 * ScoreScale)
    ELSE None

tokens_score(options, haystack, tokens) ==
    IF Len(tokens) = 0 THEN None
    ELSE IF options.fuzzy THEN fuzzy_tokens_score(haystack, tokens)
    ELSE LET each == [i \in 1..Len(tokens) |-> substring_match_score(haystack, tokens[i])]
         IN  IF \E i \in 1..Len(tokens) : ~each[i].some THEN None
             ELSE Some(SumOver([i \in 1..Len(tokens) |-> each[i].score], Len(tokens)))

(***************************************************************************)
(* Top-K selection: BinaryHeap<Reverse<HeapItem>> as the array the         *)
(* standard library keeps (1-based here), with its sift_up and             *)
(* sift_down_to_bottom.  A heap item is [score, tie, match_type]; its      *)
(* SearchResult is the entry at index `tie` with that score and type.      *)
(***************************************************************************)
\* impl Ord for HeapItem: by score, then by tie
HeapItemLess(a, b) ==
    a.score < b.score \/ (a.score = b.score /\ a.tie < b.tie)

\* Reverse(a) <= Reverse(b)
ReverseLeq(a, b) == a = b \/ HeapItemLess(b, a)

RECURSIVE SiftUp(_, _, _, _)
SiftUp(data, start, pos, elem) ==
    IF pos > start
    THEN LET parent == pos \div 2 IN
         IF ReverseLeq(elem, data[parent])
         THEN [data EXCEPT ![pos] = elem]
         ELSE SiftUp([data EXCEPT ![pos] = data[parent]], start, parent, elem)
    ELSE [data EXCEPT ![pos] = elem]

RECURSIVE SiftDownToBottom(_, _, _)
SiftDownToBottom(data, pos, elem) ==
    LET child == 2 * pos IN
    IF child + 1 <= Len(data)
    THEN LET c == IF ReverseLeq(data[child], data[child + 1]) THEN child + 1 ELSE child
         IN  SiftDownToBottom([data EXCEPT ![pos] = data[c]], c, elem)
    ELSE IF child = Len(data)
    THEN SiftUp([data EXCEPT ![pos] = data[child]], 1, child, elem)
    ELSE SiftUp(data, 1, pos, elem)

HeapPush(data, item) == SiftUp(Append(data, item), 1, Len(data) + 1, item)

HeapPop(data) ==
    LET last == data[Len(data)]
        rest == SubSeq(data, 1, Len(data) - 1)
    IN  IF Len(rest) = 0 THEN rest ELSE SiftDownToBottom(rest, 1, last)

MatchWeight(match_type) ==
    CASE match_type = "Name" -> 100 * ScoreScale
      [] match_type = "Path" -> 50 * ScoreScale
      [] match_type = "Extension" -> 30 * ScoreScale

final_score(entry, match_score, match_type) ==
    MatchWeight(match_type) + match_score
        - Min((Len(entry.name) * ScoreScale) \div 100, 10 * ScoreScale)

\* a push that keeps every match, whatever `keep` is
push_top_k_unbounded(heap, keep, tie, entry, match_score, match_type) ==
    HeapPush(heap, [score |-> final_score(entry, match_score, match_type),
                    tie |-> tie, match_type |-> match_type])

\* a top-K that keeps the first `keep` matches and ignores later ones
push_top_k_prefix(heap, keep, tie, entry, match_score, match_type) ==
    IF Len(heap) < keep
    THEN HeapPush(heap, [score |-> final_score(entry, match_score, match_type),
                         tie |-> tie, match_type |-> match_type])
    ELSE heap

push_top_k(heap, keep, tie, entry, match_score, match_type) ==
    LET item == [score |-> final_score(entry, match_score, match_type),
                 tie |-> tie, match_type |-> match_type]
    IN  IF Len(heap) < keep THEN HeapPush(heap, item)
        ELSE IF Len(heap) = 0 THEN heap
        ELSE IF item.score > heap[1].score THEN HeapPush(HeapPop(heap), item)
        ELSE heap

\* let keep = self.options.max_results.max(1)
Keep(options) == Max(options.max_results, 1)

RECURSIVE SplitFrom(_, _, _)
\* str::split_whitespace: the maximal runs of non-blank characters
SplitFrom(pattern, i, current) ==
    IF i > Len(pattern)
    THEN IF Len(current) = 0 THEN <<>> ELSE <<current>>
    ELSE IF pattern[i] = " "
    THEN (IF Len(current) = 0 THEN <<>> ELSE <<current>>) \o SplitFrom(pattern, i + 1, <<>>)
    ELSE SplitFrom(pattern, i + 1, Append(current, pattern[i]))

split_whitespace(pattern) == SplitFrom(pattern, 1, <<>>)

Tokens(options, pattern) ==
    split_whitespace(IF options.case_sensitive THEN pattern
                     ELSE lowercase_for_search(pattern))

NameHaystack(options, entry) ==
    IF options.case_sensitive THEN entry.name ELSE entry.name_lower

PathHaystack(options, entry) ==
    IF options.case_sensitive THEN entry.path ELSE entry.path_lower

NoEntryMatch == [some |-> FALSE, score |-> 0, match_type |-> "Name"]

\* `if let Some(score) = self.tokens_score(..)` with the MatchType of its arm
MatchOf(score, match_type) ==
    IF score.some
    THEN [some |-> TRUE, score |-> score.score, match_type |-> match_type]
    ELSE NoEntryMatch

FirstMatch(a, b) == IF a.some THEN a ELSE b

\* a loop body that tries the path before the name
entry_match_path_first(options, tokens, entry) ==
    FirstMatch(
        MatchOf(tokens_score(options, PathHaystack(options, entry), tokens), "Path"),
        MatchOf(tokens_score(options, NameHaystack(options, entry), tokens), "Name"))

\* the body of the loop of Searcher::search up to its push_top_k call: the
\* haystack that matched and its tokens_score, if any
entry_match(options, tokens, entry) ==
    IF options.path_search
    THEN MatchOf(tokens_score(options, PathHaystack(options, entry), tokens), "Path")
    ELSE FirstMatch(
             MatchOf(tokens_score(options, NameHaystack(options, entry), tokens), "Name"),
             MatchOf(tokens_score(options, PathHaystack(options, entry), tokens), "Path"))

RECURSIVE InsertDesc(_, _)
\* stable position of x in a list sorted by descending score
InsertDesc(sorted, x) ==
    IF Len(sorted) = 0 THEN <<x>>
    ELSE IF sorted[Len(sorted)].score >= x.score THEN Append(sorted, x)
    ELSE Append(InsertDesc(SubSeq(sorted, 1, Len(sorted) - 1), x), sorted[Len(sorted)])

\* the heap's items in the order BinaryHeap::into_iter yields them, unsorted
heap_into_iter_order(items) == items

RECURSIVE sort_by_score_desc(_)
\* results.sort_by(|a, b| b.score.partial_cmp(&a.score)): a stable sort
sort_by_score_desc(items) ==
    IF Len(items) = 0 THEN <<>>
    ELSE InsertDesc(sort_by_score_desc(SubSeq(items, 1, Len(items) - 1)), items[Len(items)])

(***************************************************************************)
(* Searcher::search as a state machine: the call's inputs are drawn in     *)
(* InitSearch, SearchEnter runs the code before the loop, SearchVisit one  *)
(* iteration of the loop, SearchCollect the code after it.                 *)
(***************************************************************************)
MaxEntries == 3
MaxK == 3

SearchEntry(path) == walk_entry(WalkItem(path, FALSE, 0, FALSE, FALSE))

SearchEntries ==
    { SearchEntry(<<"/", "a", "/", "a", "b">>),
      SearchEntry(<<"/", "a", "/", "x", "a", "b">>),
      SearchEntry(<<"/", "b", "/", "A", "b">>),
      SearchEntry(<<"/", "a", "b", "/", "x">>) }

SearchPatterns ==
    { <<>>, <<" ">>, <<"a", "b">>, <<"A", "b">>, <<"b", " ", "a">>, <<"x", " ", "a", "b">> }

\* (case_sensitive, path_search, fuzzy)
SearchFlags ==
    { <<FALSE, FALSE, TRUE>>, <<FALSE, FALSE, FALSE>>, <<TRUE, FALSE, FALSE>>,
      <<FALSE, TRUE, TRUE>> }

SearchOptionsSet ==
    { [case_sensitive |-> f[1], path_search |-> f[2], fuzzy |-> f[3], max_results |-> k] :
        f \in SearchFlags, k \in 0..MaxK }

SearchEnter ==
    /\ sr_pc = "call"
    /\ IF Len(sr_pattern) = 0
       THEN /\ sr_pc' = "done"
            /\ sr_out' = <<>>
            /\ UNCHANGED sr_tokens
       ELSE /\ sr_tokens' = Tokens(sr_options, sr_pattern)
            /\ IF Len(sr_tokens') = 0
               THEN sr_pc' = "done" /\ sr_out' = <<>>
               ELSE sr_pc' = "loop" /\ UNCHANGED sr_out
    /\ UNCHANGED <<sr_entries, sr_pattern, sr_options, sr_heap, sr_idx>>
    /\ UNCHANGED nonSearchVars

SearchVisit ==
    /\ sr_pc = "loop"
    /\ sr_idx < Len(sr_entries)
    /\ \E m \in {entry_match(sr_options, sr_tokens, sr_entries[sr_idx + 1])} :
          sr_heap' = IF m.some
                     THEN push_top_k(sr_heap, Keep(sr_options), sr_idx,
                                     sr_entries[sr_idx + 1], m.score, m.match_type)
                     ELSE sr_heap
    /\ sr_idx' = sr_idx + 1
    /\ UNCHANGED <<sr_pc, sr_entries, sr_pattern, sr_options, sr_tokens, sr_out>>
    /\ UNCHANGED nonSearchVars

SearchCollect ==
    /\ sr_pc = "loop"
    /\ sr_idx = Len(sr_entries)
    /\ sr_out' = sort_by_score_desc(sr_heap)
    /\ sr_pc' = "done"
    /\ UNCHANGED <<sr_entries, sr_pattern, sr_options, sr_tokens, sr_heap, sr_idx>>
    /\ UNCHANGED nonSearchVars

InitSearch ==
    /\ AppParked
    /\ CacheParked
    /\ FuzzyParked
    /\ UsnParked
    /\ ApplyParked
    /\ EnumParked
    /\ PathParked
    /\ PageParked
    /\ sr_pc = "call"
    /\ sr_entries \in SeqsUpTo(SearchEntries, MaxEntries)
    /\ sr_pattern \in SearchPatterns
    /\ sr_options \in SearchOptionsSet
    /\ sr_tokens = <<>>
    /\ sr_heap = <<>>
    /\ sr_idx = 0
    /\ sr_out = <<>>

NextSearch ==
    \/ SearchEnter
    \/ SearchVisit
    \/ SearchCollect

SpecSearch == InitSearch /\ [][NextSearch]_vars

(***************************************************************************)
(* Claims about Searcher::search.                                          *)
(***************************************************************************)
\* the final score search gives an entry, None when the entry does not match
EntryScore(options, tokens, entry) ==
    LET m == entry_match(options, tokens, entry)
    IN  IF m.some THEN Some(final_score(entry, m.score, m.match_type)) ELSE None

MatchingScores ==
    SelectSeq([i \in 1..Len(sr_entries) |-> EntryScore(sr_options, sr_tokens, sr_entries[i])],
              LAMBDA m : m.some)

ScoresOf(items) == [i \in 1..Len(items) |-> items[i].score]

C8_TopKExact ==
    (sr_pc = "done" /\ Len(sr_tokens) > 0 /\ sr_options.max_results >= 1) =>
        LET best == ScoresOf(sort_by_score_desc(MatchingScores))
        IN  ScoresOf(sr_out) = SubSeq(best, 1, Min(sr_options.max_results, Len(best)))

\* a match visited late outscores, and displaces, a match visited earlier
C8_Witness ==
    /\ sr_pc = "done"
    /\ sr_options.max_results >= 1
    /\ Len(sr_out) = sr_options.max_results
    /\ \E i \in 1..Len(sr_entries) :
          LET early == EntryScore(sr_options, sr_tokens, sr_entries[i]) IN
          /\ early.some
          /\ \A r \in 1..Len(sr_out) : sr_out[r].tie /= i - 1
          /\ \E r \in 1..Len(sr_out) :
                sr_out[r].tie > i - 1 /\ sr_out[r].score > early.score

(***************************************************************************)
(* Searcher::fuzzy_tokens_score on its own: a haystack and a token list    *)
(* are drawn in InitFuzzy and FuzzyTokensScore makes the call.             *)
(***************************************************************************)
MaxTokens == 4

FuzzyHaystacks ==
    { <<"a", "b", "_", "c", "d", ".", "t">>, <<"c", "d", "a", "b">>, <<"b", "a">>,
      <<"a", "x", "a", "b">> }

FuzzyTokens ==
    { <<"a", "b">>, <<"c", "d">>, <<"a", "d">>, <<"a", "d", "t">>, <<"x">> }

FuzzyTokensScore ==
    /\ fz_pc = "call"
    /\ fz_score' = fuzzy_tokens_score(fz_haystack, fz_tokens)
    /\ fz_pc' = "done"
    /\ UNCHANGED <<fz_haystack, fz_tokens>>
    /\ UNCHANGED nonFuzzyVars

InitFuzzy ==
    /\ AppParked
    /\ CacheParked
    /\ SearchParked
    /\ UsnParked
    /\ ApplyParked
    /\ EnumParked
    /\ PathParked
    /\ PageParked
    /\ fz_pc = "call"
    /\ fz_haystack \in FuzzyHaystacks
    /\ fz_tokens \in SeqsUpTo(FuzzyTokens, MaxTokens) \ {<<>>}
    /\ fz_score = None

NextFuzzy == FuzzyTokensScore

SpecFuzzy == InitFuzzy /\ [][NextFuzzy]_vars

(***************************************************************************)
(* Claims about fuzzy_tokens_score.                                        *)
(***************************************************************************)
TokenMatches(q) == fuzzy_token_match(fz_haystack, fz_tokens[q], q - 1)

Missing == Cardinality({q \in 1..Len(fz_tokens) : ~TokenMatches(q).found})

\* C9: in fuzzy mode a haystack is accepted for n tokens exactly when no
\* token fails to match for n = 1 or n = 2, and at most one fails for n >= 3.
C9_FuzzyAcceptance ==
    fz_pc = "done" =>
        (fz_score.some <=> (IF Len(fz_tokens) <= 2 THEN Missing = 0 ELSE Missing <= 1))

\* a 3-token query with exactly one failing token is accepted
C9_Witness ==
    /\ fz_pc = "done"
    /\ Len(fz_tokens) = 3
    /\ Missing = 1
    /\ fz_score.some

\* C10: for two tokens that both match, at different first-match positions,
\* the query that lists them in haystack order scores strictly higher than
\* the query that lists them swapped.
C10_InOrderScoresHigher ==
    (/\ fz_pc = "done"
     /\ Len(fz_tokens) = 2
     /\ TokenMatches(1).found
     /\ TokenMatches(2).found
     /\ TokenMatches(1).first < TokenMatches(2).first) =>
        LET swapped == fuzzy_tokens_score(fz_haystack, <<fz_tokens[2], fz_tokens[1]>>)
        IN  fz_score.some /\ swapped.some /\ fz_score.score > swapped.score

C10_Witness ==
    /\ fz_pc = "done"
    /\ Len(fz_tokens) = 2
    /\ TokenMatches(1).found
    /\ TokenMatches(2).found
    /\ TokenMatches(1).first < TokenMatches(2).first
    /\ fz_score.some

\* the tokens of the call in the order p, a permutation of 1..Len(fz_tokens)
Permuted(p) == [i \in 1..Len(fz_tokens) |-> fz_tokens[p[i]]]

\* C11: in fuzzy mode whether a haystack matches a query does not depend on
\* the order of the query's tokens: every permutation of the tokens is
\* accepted exactly when the query is.
C11_OrderIndependentMatch ==
    fz_pc = "done" =>
        \A p \in Permutations(1..Len(fz_tokens)) :
            fuzzy_tokens_score(fz_haystack, Permuted(p)).some = fz_score.some

\* three different tokens, one of them failing, are accepted in every order
C11_Witness ==
    /\ fz_pc = "done"
    /\ Len(fz_tokens) = 3
    /\ Cardinality({fz_tokens[i] : i \in 1..3}) = 3
    /\ Missing = 1
    /\ ~TokenMatches(1).found
    /\ fz_score.some
    /\ fuzzy_tokens_score(fz_haystack, <<fz_tokens[3], fz_tokens[2], fz_tokens[1]>>).some

(***************************************************************************)
(* Incremental synchronisation from the USN journal (windows_usn.rs).      *)
(* An entry carries drive, frn and parent_frn beside the fields of the     *)
(* walk; size u64::MAX is written -1.  Indices are 1-based, so the index   *)
(* the code calls idx is idx + 1 here.  A reason and an attribute word are *)
(* the sets of their flags.                                                *)
(***************************************************************************)
MaxRecords == 2

MAX_USN_EVENTS == 500000

UsnEntry(drive, frn, parent_frn, name, path, is_dir) ==
    [name |-> name, name_lower |-> lowercase_for_search(name),
     path |-> path, path_lower |-> lowercase_for_search(path),
     drive |-> drive, frn |-> frn, parent_frn |-> parent_frn,
     size |-> 0, modified_ms |-> 0, is_dir |-> is_dir, is_hidden |-> FALSE]

MapInsert(m, k, v) == [x \in DOMAIN m \cup {k} |-> IF x = k THEN v ELSE m[x]]

MapRemove(m, k) == [x \in DOMAIN m \ {k} |-> m[x]]

RECURSIVE BuildFrnToIdx(_, _, _, _)
\* the loop that fills frn_to_idx at the head of apply_events_for_drive
BuildFrnToIdx(entries, drive, idx, m) ==
    IF idx > Len(entries) THEN m
    ELSE BuildFrnToIdx(entries, drive, idx + 1,
             IF entries[idx].drive = drive /\ entries[idx].frn /= 0
             THEN MapInsert(m, entries[idx].frn, idx)
             ELSE m)

\* Vec::swap_remove
swap_remove(entries, idx) ==
    [i \in 1..(Len(entries) - 1) |-> IF i = idx THEN entries[Len(entries)] ELSE entries[i]]

\* st is the pair (entries, frn_to_idx) the code passes as two &mut
remove_entry_by_idx(st, idx) ==
    LET removed == st.entries[idx]
        shrunk == swap_remove(st.entries, idx)
        m1 == IF removed.frn /= 0 THEN MapRemove(st.frn_to_idx, removed.frn)
              ELSE st.frn_to_idx
    IN  [entries |-> shrunk,
         frn_to_idx |-> IF idx <= Len(shrunk) /\ shrunk[idx].frn /= 0
                        THEN MapInsert(m1, shrunk[idx].frn, idx)
                        ELSE m1]

RECURSIVE remove_entries_by_prefix(_, _, _, _)
remove_entries_by_prefix(st, drive, prefix, i) ==
    IF i > Len(st.entries) THEN st
    ELSE IF st.entries[i].drive = drive /\ starts_with(st.entries[i].path, prefix)
    THEN remove_entries_by_prefix(remove_entry_by_idx(st, i), drive, prefix, i)
    ELSE remove_entries_by_prefix(st, drive, prefix, i + 1)

update_entries_prefix(entries, drive, from_prefix, to_prefix) ==
    [i \in 1..Len(entries) |->
        IF entries[i].drive = drive /\ starts_with(entries[i].path, from_prefix)
        THEN LET path == to_prefix \o SubSeq(entries[i].path, Len(from_prefix) + 1,
                                             Len(entries[i].path))
             IN  [entries[i] EXCEPT !.path = path,
                                    !.path_lower = lowercase_for_search(path)]
        ELSE entries[i]]

\* if p.ends_with('/') { p } else { format!("{p}/") }
AsPrefix(p) == IF ends_with(p, <<"/">>) THEN p ELSE Append(p, "/")

NoPath == [some |-> FALSE, path |-> <<>>]

compose_path(entries, frn_to_idx, drive, root_frn, parent_frn, name) ==
    IF parent_frn = root_frn THEN [some |-> TRUE, path |-> <<drive, ":", "/">> \o name]
    ELSE IF parent_frn \notin DOMAIN frn_to_idx THEN NoPath
    ELSE IF frn_to_idx[parent_frn] > Len(entries) THEN NoPath
    ELSE [some |-> TRUE, path |-> AsPrefix(entries[frn_to_idx[parent_frn]].path) \o name]

NewEntry(drive, ev, new_path) ==
    [name |-> ev.name, name_lower |-> lowercase_for_search(ev.name),
     path |-> new_path, path_lower |-> lowercase_for_search(new_path),
     drive |-> drive, frn |-> ev.frn, parent_frn |-> ev.parent_frn,
     size |-> -1, modified_ms |-> 0,
     is_dir |-> "DIRECTORY" \in ev.attrs,
     is_hidden |-> ev.attrs \cap {"HIDDEN", "SYSTEM"} /= {}]

\* entries.push(new_entry); frn_to_idx.insert(ev.frn, entries.len() - 1)
PushEntry(st, drive, ev, new_path) ==
    [entries |-> Append(st.entries, NewEntry(drive, ev, new_path)),
     frn_to_idx |-> MapInsert(st.frn_to_idx, ev.frn, Len(st.entries) + 1)]

\* the delete arm, for an event whose frn is at idx
DeleteAt(st, drive, idx, is_dir, old_path) ==
    IF is_dir /\ Len(old_path) > 0
    THEN remove_entries_by_prefix(remove_entry_by_idx(st, idx), drive, AsPrefix(old_path), 1)
    ELSE remove_entry_by_idx(st, idx)

\* the rename arm, for an event whose frn is at idx and whose path composes
RenameAt(st, drive, idx, ev, old_path, old_is_dir, new_path) ==
    LET renamed ==
            [st.entries EXCEPT ![idx] =
                [@ EXCEPT !.name = ev.name,
                          !.name_lower = lowercase_for_search(ev.name),
                          !.path = new_path,
                          !.path_lower = lowercase_for_search(new_path),
                          !.parent_frn = ev.parent_frn,
                          !.is_dir = "DIRECTORY" \in ev.attrs,
                          !.is_hidden = ev.attrs \cap {"HIDDEN", "SYSTEM"} /= {}]]
    IN  [st EXCEPT !.entries =
            IF old_is_dir /\ Len(old_path) > 0 /\ old_path /= new_path
            THEN update_entries_prefix(renamed, drive, AsPrefix(old_path), AsPrefix(new_path))
            ELSE renamed]

\* the create arm and the rename arm of an unknown frn, given compose_path's result
PushIfSome(st, drive, ev, composed) ==
    IF composed.some THEN PushEntry(st, drive, ev, composed.path) ELSE st

RenameIfSome(st, drive, idx, ev, composed) ==
    IF composed.some
    THEN RenameAt(st, drive, idx, ev, st.entries[idx].path, st.entries[idx].is_dir,
                  composed.path)
    ELSE st

\* one iteration of `for ev in events` of apply_events_for_drive
apply_event(st, drive, root_frn, ev) ==
    IF "FILE_DELETE" \in ev.reason
    THEN IF ev.frn \in DOMAIN st.frn_to_idx
         THEN DeleteAt(st, drive, st.frn_to_idx[ev.frn],
                       st.entries[st.frn_to_idx[ev.frn]].is_dir,
                       st.entries[st.frn_to_idx[ev.frn]].path)
         ELSE st
    ELSE IF "RENAME_NEW_NAME" \in ev.reason
    THEN IF ev.frn \in DOMAIN st.frn_to_idx
         THEN RenameIfSome(st, drive, st.frn_to_idx[ev.frn], ev,
                  compose_path(st.entries, st.frn_to_idx, drive, root_frn,
                               ev.parent_frn, ev.name))
         ELSE PushIfSome(st, drive, ev,
                  compose_path(st.entries, st.frn_to_idx, drive, root_frn,
                               ev.parent_frn, ev.name))
    ELSE IF "FILE_CREATE" \in ev.reason
    THEN IF ev.frn \in DOMAIN st.frn_to_idx THEN st
         ELSE PushIfSome(st, drive, ev,
                  compose_path(st.entries, st.frn_to_idx, drive, root_frn,
                               ev.parent_frn, ev.name))
    ELSE st

RECURSIVE ApplyEvents(_, _, _, _, _)
ApplyEvents(st, drive, root_frn, events, k) ==
    IF k > Len(events) THEN st
    ELSE ApplyEvents(apply_event(st, drive, root_frn, events[k]), drive, root_frn,
                     events, k + 1)

apply_events_for_drive(entries, state, events) ==
    IF Len(events) = 0 THEN entries
    ELSE ApplyEvents([entries |-> entries,
                      frn_to_idx |-> BuildFrnToIdx(entries, state.drive, 1, <<>>)],
                     state.drive, state.root_frn, events, 1).entries

\* the record filter of read_usn_events: the records that become events
IsEvent(record, root_frn) ==
    /\ record.major = 2
    /\ record.reason \cap {"FILE_CREATE", "FILE_DELETE", "RENAME_NEW_NAME",
                           "RENAME_OLD_NAME"} /= {}
    /\ ~("RENAME_OLD_NAME" \in record.reason /\ "RENAME_NEW_NAME" \notin record.reason)
    /\ record.frn /= root_frn
    /\ Len(record.name) > 0

EventOf(record) ==
    [frn |-> record.frn, parent_frn |-> record.parent_frn, attrs |-> record.attrs,
     reason |-> record.reason, name |-> record.name]

RECURSIVE PageEvents(_, _, _)
PageEvents(records, root_frn, k) ==
    IF k > Len(records) THEN <<>>
    ELSE (IF IsEvent(records[k], root_frn) THEN <<EventOf(records[k])>> ELSE <<>>)
         \o PageEvents(records, root_frn, k + 1)

RECURSIVE PageBulk(_, _, _)
\* the events of a page that PageEvents does not list: count - 1 per run
PageBulk(records, root_frn, k) ==
    IF k > Len(records) THEN 0
    ELSE (IF IsEvent(records[k], root_frn) THEN records[k].count - 1 ELSE 0)
         + PageBulk(records, root_frn, k + 1)

\* if events.len() > 500_000
TooManyEventsNever(n) == FALSE

TooManyEvents(n) == n > MAX_USN_EVENTS

(***************************************************************************)
(* try_apply_usn_incremental as a state machine.  UsnEnter is the empty    *)
(* check, UsnLoop the head of `for state in usn_states`, UsnQueryJournal   *)
(* read_usn_events up to its loop, UsnReadPage one iteration of that loop, *)
(* UsnApply apply_events_for_drive.  UsnStopIndexing is another thread     *)
(* storing false to the shared is_indexing flag.                           *)
(***************************************************************************)
UsnRecord(reason, frn, parent_frn, attrs, name) ==
    [major |-> 2, reason |-> reason, frn |-> frn, parent_frn |-> parent_frn,
     attrs |-> attrs, name |-> name, count |-> 1]

UsnRecords ==
    { UsnRecord({"FILE_CREATE"}, 4, 1, {}, <<"A">>),
      UsnRecord({"FILE_CREATE"}, 5, 9, {}, <<"x">>),
      UsnRecord({"FILE_DELETE"}, 2, 1, {"DIRECTORY"}, <<"d">>),
      UsnRecord({"RENAME_NEW_NAME"}, 2, 1, {"DIRECTORY"}, <<"b">>),
      UsnRecord({"RENAME_OLD_NAME"}, 3, 2, {}, <<"t">>),
      [UsnRecord({"FILE_CREATE"}, 6, 1, {}, <<"w">>) EXCEPT !.major = 3],
      \* runs of `count` records alike, for a file the entry set does not hold
      [UsnRecord({"FILE_DELETE"}, 9, 1, {}, <<"z">>) EXCEPT !.count = MAX_USN_EVENTS \div 2],
      [UsnRecord({"FILE_DELETE"}, 9, 1, {}, <<"z">>) EXCEPT !.count = MAX_USN_EVENTS] }

\* one journal page per record; page k leaves the cursor at 100 + k
PagesOf(script) ==
    [k \in 1..Len(script) |-> [next_usn |-> 100 + k, records |-> <<script[k]>>]]

UsnScripts == SeqsUpTo(UsnRecords, MaxRecords)

OtherScripts == { <<>>, <<UsnRecord({"FILE_CREATE"}, 4, 1, {"HIDDEN"}, <<"x">>)>> }

UsnInitialEntries ==
    { <<>>,
      << UsnEntry("C", 2, 1, <<"d">>, <<"C", ":", "/", "d">>, TRUE),
         UsnEntry("D", 2, 1, <<"h">>, <<"D", ":", "/", "h">>, FALSE),
         UsnEntry("C", 3, 2, <<"T">>, <<"C", ":", "/", "d", "/", "T">>, FALSE) >> }

UsnState(drive) == [drive |-> drive, journal_id |-> 7, root_frn |-> 1, last_usn |-> 100]

UsnStateLists ==
    { <<>>, <<UsnState("C")>>, <<UsnState("C"), UsnState("D")>>,
      <<UsnState("D"), UsnState("C")>> }

UsnEnter ==
    /\ usn_pc = "call"
    /\ IF Len(usn_states) = 0
       THEN usn_pc' = "done" /\ usn_result' = "Ok" /\ UNCHANGED usn_i
       ELSE usn_pc' = "loop" /\ usn_i' = 1 /\ UNCHANGED usn_result
    /\ UNCHANGED <<usn_entries, usn_states, usn_is_indexing, usn_page, usn_events,
                   usn_volumes, usn_entries0, usn_applied, usn_bulk>>
    /\ UNCHANGED nonUsnVars

UsnLoop ==
    /\ usn_pc = "loop"
    /\ IF usn_i > Len(usn_states) \/ ~usn_is_indexing
       THEN usn_pc' = "done" /\ usn_result' = "Ok"
       ELSE usn_pc' = "query" /\ UNCHANGED usn_result
    /\ UNCHANGED <<usn_entries, usn_states, usn_is_indexing, usn_i, usn_page,
                   usn_events, usn_volumes, usn_entries0, usn_applied, usn_bulk>>
    /\ UNCHANGED nonUsnVars

UsnQueryJournal ==
    /\ usn_pc = "query"
    /\ IF usn_volumes[usn_states[usn_i].drive].journal_id /= usn_states[usn_i].journal_id
       THEN /\ usn_pc' = "done"
            /\ usn_result' = "JournalInvalidated"
            /\ UNCHANGED <<usn_page, usn_events, usn_bulk>>
       ELSE /\ usn_pc' = "read"
            /\ usn_page' = 0
            /\ usn_events' = <<>>
            /\ usn_bulk' = 0
            /\ UNCHANGED usn_result
    /\ UNCHANGED <<usn_entries, usn_states, usn_is_indexing, usn_i, usn_volumes,
                   usn_entries0, usn_applied>>
    /\ UNCHANGED nonUsnVars

UsnReadPage ==
    /\ usn_pc = "read"
    /\ LET state == usn_states[usn_i]
           pages == usn_volumes[state.drive].pages
       IN  IF ~usn_is_indexing
           THEN /\ usn_events' = <<>>
                /\ usn_bulk' = 0
                /\ usn_pc' = "apply"
                /\ UNCHANGED <<usn_states, usn_page, usn_result>>
           ELSE IF usn_page >= Len(pages)
           THEN /\ usn_pc' = "apply"
                /\ UNCHANGED <<usn_states, usn_page, usn_events, usn_bulk, usn_result>>
           ELSE /\ usn_states' = [usn_states EXCEPT ![usn_i].last_usn =
                                     pages[usn_page + 1].next_usn]
                /\ usn_page' = usn_page + 1
                /\ usn_events' = usn_events
                      \o PageEvents(pages[usn_page + 1].records, state.root_frn, 1)
                /\ usn_bulk' = usn_bulk + PageBulk(pages[usn_page + 1].records,
                                                   state.root_frn, 1)
                /\ IF TooManyEvents(Len(usn_events') + usn_bulk')
                   THEN usn_pc' = "done" /\ usn_result' = "TooManyChanges"
                   ELSE UNCHANGED <<usn_pc, usn_result>>
    /\ UNCHANGED <<usn_entries, usn_is_indexing, usn_i, usn_volumes, usn_entries0,
                   usn_applied>>
    /\ UNCHANGED nonUsnVars

UsnApply ==
    /\ usn_pc = "apply"
    /\ usn_entries' = apply_events_for_drive(usn_entries, usn_states[usn_i], usn_events)
    /\ usn_i' = usn_i + 1
    /\ usn_pc' = "loop"
    /\ usn_applied' = [usn_applied EXCEPT ![usn_i] = @ \o usn_events]
    /\ UNCHANGED <<usn_states, usn_is_indexing, usn_page, usn_events, usn_result,
                   usn_volumes, usn_entries0, usn_bulk>>
    /\ UNCHANGED nonUsnVars

UsnStopIndexing ==
    /\ usn_pc \in {"call", "loop", "query", "read", "apply"}
    /\ usn_is_indexing
    /\ usn_is_indexing' = FALSE
    /\ UNCHANGED <<usn_pc, usn_entries, usn_states, usn_i, usn_page, usn_events,
                   usn_result, usn_volumes, usn_entries0, usn_applied, usn_bulk>>
    /\ UNCHANGED nonUsnVars

InitUsn ==
    /\ AppParked
    /\ CacheParked
    /\ SearchParked
    /\ FuzzyParked
    /\ ApplyParked
    /\ EnumParked
    /\ PathParked
    /\ PageParked
    /\ usn_pc = "call"
    /\ usn_entries \in UsnInitialEntries
    /\ usn_states \in UsnStateLists
    /\ usn_is_indexing = TRUE
    /\ usn_i = 0
    /\ usn_page = 0
    /\ usn_events = <<>>
    /\ usn_result = "none"
    /\ \E idC \in {7, 8}, idD \in {7, 8}, sC \in UsnScripts, sD \in OtherScripts :
          usn_volumes = [d \in {"C", "D"} |->
                            IF d = "C" THEN [journal_id |-> idC, pages |-> PagesOf(sC)]
                            ELSE [journal_id |-> idD, pages |-> PagesOf(sD)]]
    /\ usn_entries0 = usn_entries
    /\ usn_applied = [i \in 1..Len(usn_states) |-> <<>>]
    /\ usn_bulk = 0

NextUsn ==
    \/ UsnEnter
    \/ UsnLoop
    \/ UsnQueryJournal
    \/ UsnReadPage
    \/ UsnApply
    \/ UsnStopIndexing

SpecUsn == InitUsn /\ [][NextUsn]_vars

(***************************************************************************)
(* Claims about the incremental synchronisation.                           *)
(***************************************************************************)
\* C4: when try_apply_usn_incremental meets a volume whose journal id
\* differs from the stored one it returns an error and the entry set is
\* exactly what it was before the call, wherever that volume stands in the
\* list of sync states.
C4_MismatchLeavesEntries ==
    usn_result = "JournalInvalidated" => usn_entries = usn_entries0

(***************************************************************************)
(* apply_events_for_drive as a state machine: ApplyEnter is the code       *)
(* before `for ev in events`, ApplyEvent one iteration of that loop,       *)
(* ApplyReturn the return.  Indexing `entries[idx]` with an idx that is    *)
(* not an index of entries panics.                                         *)
(***************************************************************************)
MaxApplyEntries == 3
MaxApplyEvents == 3

ApplyCandidates ==
    { UsnEntry("C", 2, 1, <<"d">>, <<"C", ":", "/", "d">>, TRUE),
      UsnEntry("C", 3, 2, <<"T">>, <<"C", ":", "/", "d", "/", "T">>, FALSE),
      UsnEntry("C", 4, 1, <<"d", "x">>, <<"C", ":", "/", "d", "x">>, FALSE),
      UsnEntry("D", 2, 1, <<"h">>, <<"D", ":", "/", "h">>, FALSE),
      UsnEntry("D", 3, 1, <<"d">>, <<"D", ":", "/", "d">>, TRUE) }

\* the lists of at most n different candidates
DistinctSeqs(S, n) ==
    {q \in SeqsUpTo(S, n) : \A i, j \in 1..Len(q) : i < j => q[i] /= q[j]}

ApplyEventsOfC ==
    { EventOf(UsnRecord({"FILE_DELETE"}, 2, 1, {"DIRECTORY"}, <<"d">>)),
      EventOf(UsnRecord({"FILE_DELETE"}, 4, 1, {}, <<"d", "x">>)),
      EventOf(UsnRecord({"RENAME_NEW_NAME"}, 2, 1, {"DIRECTORY"}, <<"b">>)),
      EventOf(UsnRecord({"RENAME_NEW_NAME"}, 3, 1, {}, <<"w">>)),
      EventOf(UsnRecord({"FILE_CREATE"}, 5, 2, {}, <<"A">>)),
      EventOf(UsnRecord({"FILE_CREATE"}, 3, 1, {"HIDDEN"}, <<"x">>)),
      EventOf(UsnRecord({"FILE_CREATE"}, 2, 1, {}, <<"q">>)) }

\* entries[idx] of the delete and rename arms is out of range
StaleIndex(st, ev) ==
    /\ ev.reason \cap {"FILE_DELETE", "RENAME_NEW_NAME"} /= {}
    /\ ev.frn \in DOMAIN st.frn_to_idx
    /\ st.frn_to_idx[ev.frn] > Len(st.entries)

ApplyEnter ==
    /\ ap_pc = "call"
    /\ IF Len(ap_events) = 0
       THEN ap_pc' = "done" /\ UNCHANGED ap_frn_to_idx
       ELSE /\ ap_pc' = "events"
            /\ ap_frn_to_idx' = BuildFrnToIdx(ap_entries, ap_state.drive, 1, <<>>)
    /\ UNCHANGED <<ap_entries, ap_state, ap_events, ap_k, ap_before, ap_entries0>>
    /\ UNCHANGED nonApplyVars

ApplyEvent ==
    /\ ap_pc = "events"
    /\ ap_k < Len(ap_events)
    /\ \E st \in {[entries |-> ap_entries, frn_to_idx |-> ap_frn_to_idx]} :
          IF StaleIndex(st, ap_events[ap_k + 1])
          THEN /\ ap_pc' = "panicked"
               /\ UNCHANGED <<ap_entries, ap_frn_to_idx, ap_k, ap_before>>
          ELSE \E after \in {apply_event(st, ap_state.drive, ap_state.root_frn,
                                         ap_events[ap_k + 1])} :
                  /\ ap_entries' = after.entries
                  /\ ap_frn_to_idx' = after.frn_to_idx
                  /\ ap_k' = ap_k + 1
                  /\ ap_before' = ap_entries
                  /\ UNCHANGED ap_pc
    /\ UNCHANGED <<ap_state, ap_events, ap_entries0>>
    /\ UNCHANGED nonApplyVars

ApplyReturn ==
    /\ ap_pc = "events"
    /\ ap_k = Len(ap_events)
    /\ ap_pc' = "done"
    /\ UNCHANGED <<ap_entries, ap_state, ap_events, ap_frn_to_idx, ap_k, ap_before,
                   ap_entries0>>
    /\ UNCHANGED nonApplyVars

InitApply ==
    /\ AppParked
    /\ CacheParked
    /\ SearchParked
    /\ FuzzyParked
    /\ UsnParked
    /\ EnumParked
    /\ PathParked
    /\ PageParked
    /\ ap_pc = "call"
    /\ ap_entries \in DistinctSeqs(ApplyCandidates, MaxApplyEntries)
    /\ ap_state = UsnState("C")
    /\ ap_events \in SeqsUpTo(ApplyEventsOfC, MaxApplyEvents)
    /\ ap_frn_to_idx = <<>>
    /\ ap_k = 0
    /\ ap_before = ap_entries
    /\ ap_entries0 = ap_entries

NextApply ==
    \/ ApplyEnter
    \/ ApplyEvent
    \/ ApplyReturn

SpecApply == InitApply /\ [][NextApply]_vars

(***************************************************************************)
(* Claims about apply_events_for_drive.                                    *)
(***************************************************************************)
EntrySet(entries) == {entries[i] : i \in 1..Len(entries)}

\* the loop has processed at least one event; LastEvent is the last of them
Stepped == ap_pc \in {"events", "done"} /\ ap_k >= 1

LastEvent == ap_events[ap_k]

\* the indices at which `entries` holds the entry of volume drive with that frn
IndicesOf(entries, drive, frn) ==
    {i \in 1..Len(entries) : entries[i].drive = drive /\ entries[i].frn = frn}

Under(path, dir_path) == starts_with(path, Append(dir_path, "/"))

\* C12: after a delete event for a known directory entry, neither that
\* entry nor any entry of the same volume whose path starts with the
\* directory's path plus '/' remains, and no entry of that volume outside
\* the deleted subtree is removed.
C12_DeleteRemovesSubtree ==
    (Stepped /\ "FILE_DELETE" \in LastEvent.reason) =>
        \A i \in IndicesOf(ap_before, ap_state.drive, LastEvent.frn) :
            ap_before[i].is_dir =>
                /\ ap_before[i] \notin EntrySet(ap_entries)
                /\ \A e \in EntrySet(ap_entries) :
                      ~(e.drive = ap_state.drive /\ Under(e.path, ap_before[i].path))
                /\ \A j \in 1..Len(ap_before) :
                      (/\ j /= i
                       /\ ap_before[j].drive = ap_state.drive
                       /\ ~Under(ap_before[j].path, ap_before[i].path)) =>
                          ap_before[j] \in EntrySet(ap_entries)

\* the path the event gives its file: the parent's path, '/', the name
NewPathOf(entries, drive, root_frn, ev) ==
    IF ev.parent_frn = root_frn THEN {<<drive, ":", "/">> \o ev.name}
    ELSE {AsPrefix(entries[i].path) \o ev.name : i \in IndicesOf(entries, drive, ev.parent_frn)}

\* C13: after a rename (new-name) event for a known directory entry whose
\* path changes from P to Q, every entry of that volume whose path was
\* P + '/' + s has path Q + '/' + s and path_lower recomputed, and entries
\* whose path did not start with P + '/' keep their path.
C13_RenameMovesSubtree ==
    (/\ Stepped
     /\ "RENAME_NEW_NAME" \in LastEvent.reason
     /\ "FILE_DELETE" \notin LastEvent.reason) =>
        \A i \in IndicesOf(ap_before, ap_state.drive, LastEvent.frn) :
        \A Q \in NewPathOf(ap_before, ap_state.drive, ap_state.root_frn, LastEvent) :
            (ap_before[i].is_dir /\ Q /= ap_before[i].path) =>
                /\ Len(ap_entries) = Len(ap_before)
                /\ ap_entries[i].path = Q
                /\ \A j \in 1..Len(ap_before) :
                      IF j = i THEN TRUE
                      ELSE IF /\ ap_before[j].drive = ap_state.drive
                              /\ Under(ap_before[j].path, ap_before[i].path)
                      THEN /\ ap_entries[j].path =
                                Q \o SubSeq(ap_before[j].path, Len(ap_before[i].path) + 1,
                                            Len(ap_before[j].path))
                           /\ ap_entries[j].path_lower =
                                lowercase_for_search(ap_entries[j].path)
                      ELSE ap_entries[j].path = ap_before[j].path

\* C17: after every step of apply_events_for_drive each mapping frn -> i of
\* the lookup points to an existing entry i of the affected volume with that
\* frn, and every entry of that volume with a non-zero frn is in the lookup.
C17_LookupConsistent ==
    ap_pc = "events" =>
        /\ \A f \in DOMAIN ap_frn_to_idx :
              /\ ap_frn_to_idx[f] \in 1..Len(ap_entries)
              /\ ap_entries[ap_frn_to_idx[f]].drive = ap_state.drive
              /\ ap_entries[ap_frn_to_idx[f]].frn = f
        /\ \A i \in 1..Len(ap_entries) :
              (ap_entries[i].drive = ap_state.drive /\ ap_entries[i].frn /= 0) =>
                  ap_entries[i].frn \in DOMAIN ap_frn_to_idx

\* C18: applying the events of one volume never removes or modifies an
\* entry of another volume.
C18_OtherVolumesUntouched ==
    ap_pc \in {"events", "done"} =>
        {e \in EntrySet(ap_entries) : e.drive /= ap_state.drive}
            = {e \in EntrySet(ap_entries0) : e.drive /= ap_state.drive}

(***************************************************************************)
(* Order of the list search returns.  An item of sr_out keeps the `tie` of *)
(* its HeapItem, which is the index of its entry in the entry list.        *)
(***************************************************************************)

\* C14: in the list search returns, results of equal score stand in the
\* order of their entries in the entry list (the lower index first), for
\* every entry list and every max_results.
C14_TiesInEntryOrder ==
    sr_pc = "done" =>
        \A i, j \in 1..Len(sr_out) :
            (i < j /\ sr_out[i].score = sr_out[j].score) => sr_out[i].tie < sr_out[j].tie

\* C15: the list search returns is sorted by score, highest first: each
\* result's score is at least the score of the result after it.
C15_SortedByScoreDesc ==
    sr_pc = "done" =>
        \A i \in 1..(Len(sr_out) - 1) : sr_out[i].score >= sr_out[i + 1].score

\* three results of which the heap held the lowest first: the sort moved it
C15_Witness ==
    /\ sr_pc = "done"
    /\ Len(sr_out) = 3
    /\ sr_out[1].score > sr_out[3].score
    /\ sr_heap[1].score < sr_heap[2].score
    /\ sr_out /= sr_heap

(***************************************************************************)
(* The two enumerations a rebuild runs under the shared is_indexing flag:  *)
(* the directory walk of build_index_snapshot and the MFT enumeration of   *)
(* try_enumerate_drive_root.  EnumWalkItem is one iteration of the walk's  *)
(* loop, EnumDrivePage one iteration of the FSCTL_ENUM_USN_DATA loop,      *)
(* EnumDriveBuild the code after that loop.  EnumStopIndexing is another   *)
(* thread storing false to the flag.  HashMap iteration order is not       *)
(* specified, so EnumDriveBuild may produce the entries in any order.      *)
(***************************************************************************)
MaxEnumSteps == 2

MAX_PATH_DEPTH == 4096

EnumDrive == "C"

EnumRootFrn == 1

MftRecord(frn, parent, attrs, name) ==
    [major |-> 2, frn |-> frn, parent |-> parent, attrs |-> attrs, name |-> name]

\* what one FSCTL_ENUM_USN_DATA call can answer: a buffer of records, or an
\* error other than ERROR_HANDLE_EOF
MftPages ==
    { [ok |-> TRUE, records |-> <<MftRecord(2, 1, {"DIRECTORY"}, <<"d">>)>>],
      [ok |-> TRUE, records |-> <<MftRecord(3, 2, {}, <<"T">>),
                                  MftRecord(1, 1, {"DIRECTORY"}, <<".">>)>>],
      [ok |-> TRUE, records |-> <<MftRecord(4, 1, {"HIDDEN"}, <<"x">>),
                                  MftRecord(5, 9, {}, <<"y">>),
                                  [MftRecord(6, 1, {}, <<"w">>) EXCEPT !.major = 3],
                                  MftRecord(7, 1, {}, <<>>)>>],
      [ok |-> FALSE, records |-> <<>>] }

RECURSIVE InsertRecords(_, _, _)
\* the `while offset + ... <= bytes_returned` loop over one buffer
InsertRecords(nodes, records, k) ==
    IF k > Len(records) THEN nodes
    ELSE InsertRecords(
             IF records[k].major = 2 /\ Len(records[k].name) > 0
             THEN MapInsert(nodes, records[k].frn,
                            [parent |-> records[k].parent, name |-> records[k].name,
                             attrs |-> records[k].attrs])
             ELSE nodes,
             records, k + 1)

RECURSIVE build_full_path_from(_, _, _, _, _)
\* the path of `cur`, reached after `depth` steps up from the node asked for
build_full_path_from(cur, root_frn, drive, nodes, depth) ==
    IF cur = root_frn THEN [some |-> TRUE, path |-> <<drive, ":", "/">>]
    ELSE IF cur \notin DOMAIN nodes THEN NoPath
    ELSE IF nodes[cur].parent = 0 \/ nodes[cur].parent = cur
    THEN [some |-> TRUE, path |-> <<drive, ":", "/">> \o nodes[cur].name]
    ELSE IF depth + 1 > MAX_PATH_DEPTH THEN NoPath
    ELSE LET base == build_full_path_from(nodes[cur].parent, root_frn, drive, nodes,
                                          depth + 1)
         IN  IF base.some
             THEN [some |-> TRUE, path |-> AsPrefix(base.path) \o nodes[cur].name]
             ELSE NoPath

build_full_path(frn, root_frn, drive, nodes) ==
    build_full_path_from(frn, root_frn, drive, nodes, 0)

DriveEntry(frn, node, drive, full_path) ==
    [name |-> node.name, name_lower |-> lowercase_for_search(node.name),
     path |-> full_path, path_lower |-> lowercase_for_search(full_path),
     drive |-> drive, frn |-> frn, parent_frn |-> node.parent,
     size |-> -1, modified_ms |-> 0,
     is_dir |-> "DIRECTORY" \in node.attrs,
     is_hidden |-> node.attrs \cap {"HIDDEN", "SYSTEM"} /= {}]

RECURSIVE DriveEntries(_, _, _, _, _)
\* `for (frn, node) in nodes.iter()`, visiting the keys in the order `order`
DriveEntries(nodes, root_frn, drive, order, k) ==
    IF k > Len(order) THEN <<>>
    ELSE (IF order[k] = root_frn THEN <<>>
          ELSE IF build_full_path(order[k], root_frn, drive, nodes).some
          THEN <<DriveEntry(order[k], nodes[order[k]], drive,
                            build_full_path(order[k], root_frn, drive, nodes).path)>>
          ELSE <<>>)
         \o DriveEntries(nodes, root_frn, drive, order, k + 1)

OrdersOf(S) ==
    {q \in [1..Cardinality(S) -> S] : \A i, j \in 1..Cardinality(S) : i < j => q[i] /= q[j]}

EnumWalkItem ==
    /\ en_kind = "walk"
    /\ en_pc = "loop"
    /\ IF en_pos = Len(en_input)
       THEN /\ en_result' = [status |-> "Ok", entries |-> en_all_entries]
            /\ en_pc' = "returned"
            /\ UNCHANGED <<en_pos, en_all_entries, en_cancelled>>
       ELSE IF en_input[en_pos + 1].kind = "entry" /\ ~en_is_indexing
       THEN /\ en_result' = [status |-> "Ok", entries |-> en_all_entries]
            /\ en_pc' = "returned"
            /\ en_cancelled' = TRUE
            /\ UNCHANGED <<en_pos, en_all_entries>>
       ELSE \E r \in {walk_step(en_all_entries, en_input[en_pos + 1])} :
               IF r.aborted
               THEN /\ en_result' = [status |-> "Err", entries |-> <<>>]
                    /\ en_pc' = "returned"
                    /\ UNCHANGED <<en_pos, en_all_entries, en_cancelled>>
               ELSE /\ en_all_entries' = r.entries
                    /\ en_pos' = en_pos + 1
                    /\ UNCHANGED <<en_pc, en_cancelled, en_result>>
    /\ UNCHANGED <<en_kind, en_input, en_nodes, en_is_indexing>>
    /\ UNCHANGED nonEnumVars

EnumDrivePage ==
    /\ en_kind = "drive"
    /\ en_pc = "loop"
    /\ IF ~en_is_indexing
       THEN /\ en_result' = [status |-> "Ok", entries |-> <<>>]
            /\ en_pc' = "returned"
            /\ en_cancelled' = TRUE
            /\ UNCHANGED <<en_pos, en_nodes>>
       ELSE IF en_pos = Len(en_input)
       THEN /\ en_pc' = "build"
            /\ UNCHANGED <<en_pos, en_nodes, en_cancelled, en_result>>
       ELSE IF ~en_input[en_pos + 1].ok
       THEN /\ en_result' = [status |-> "Err", entries |-> <<>>]
            /\ en_pc' = "returned"
            /\ UNCHANGED <<en_pos, en_nodes, en_cancelled>>
       ELSE /\ en_nodes' = InsertRecords(en_nodes, en_input[en_pos + 1].records, 1)
            /\ en_pos' = en_pos + 1
            /\ UNCHANGED <<en_pc, en_cancelled, en_result>>
    /\ UNCHANGED <<en_kind, en_input, en_all_entries, en_is_indexing>>
    /\ UNCHANGED nonEnumVars

EnumDriveBuild ==
    /\ en_kind = "drive"
    /\ en_pc = "build"
    /\ \E order \in OrdersOf(DOMAIN en_nodes) :
          en_result' = [status |-> "Ok",
                        entries |-> DriveEntries(en_nodes, EnumRootFrn, EnumDrive, order, 1)]
    /\ en_pc' = "returned"
    /\ UNCHANGED <<en_kind, en_input, en_pos, en_all_entries, en_nodes, en_is_indexing,
                   en_cancelled>>
    /\ UNCHANGED nonEnumVars

EnumStopIndexing ==
    /\ en_pc = "loop"
    /\ en_is_indexing
    /\ en_is_indexing' = FALSE
    /\ UNCHANGED <<en_kind, en_pc, en_input, en_pos, en_all_entries, en_nodes,
                   en_cancelled, en_result>>
    /\ UNCHANGED nonEnumVars

InitEnum ==
    /\ AppParked
    /\ CacheParked
    /\ SearchParked
    /\ FuzzyParked
    /\ UsnParked
    /\ ApplyParked
    /\ PathParked
    /\ PageParked
    /\ en_kind \in {"walk", "drive"}
    /\ en_pc = "loop"
    /\ en_input \in (IF en_kind = "walk" THEN SeqsUpTo(WalkSteps, MaxEnumSteps)
                     ELSE SeqsUpTo(MftPages, MaxEnumSteps))
    /\ en_pos = 0
    /\ en_all_entries = <<>>
    /\ en_nodes = <<>>
    /\ en_is_indexing = TRUE
    /\ en_cancelled = FALSE
    /\ en_result = [status |-> "none", entries |-> <<>>]

NextEnum ==
    \/ EnumWalkItem
    \/ EnumDrivePage
    \/ EnumDriveBuild
    \/ EnumStopIndexing

SpecEnum == InitEnum /\ [][NextEnum]_vars

RECURSIVE WalkedEntries(_, _)
\* the entries of the first n walk steps that are DirEntries with metadata
WalkedEntries(steps, n) ==
    IF n = 0 THEN <<>>
    ELSE IF steps[n].kind = "entry" /\ steps[n].metadata_ok
    THEN Append(WalkedEntries(steps, n - 1), walk_entry(steps[n].item))
    ELSE WalkedEntries(steps, n - 1)

\* the entries of the nodes collected so far, in some order
CollectedDriveEntries ==
    { DriveEntries(en_nodes, EnumRootFrn, EnumDrive, order, 1) :
        order \in OrdersOf(DOMAIN en_nodes) }

\* C16: an enumeration that finds is_indexing cleared stops before the next
\* item (or the next page) and returns, without an error, the entries it has
\* collected up to that point: the walk its all_entries, the drive
\* enumeration the entries of the nodes it has read.
C16_CancelReturnsCollected ==
    (en_pc = "returned" /\ en_cancelled) =>
        /\ en_result.status = "Ok"
        /\ en_pos < Len(en_input) \/ en_kind = "drive"
        /\ en_kind = "walk" =>
              en_result.entries = WalkedEntries(en_input, en_pos)
        /\ en_kind = "drive" => en_result.entries \in CollectedDriveEntries

(***************************************************************************)
(* Rebuilds racing on the shared is_indexing flag (specification Spec).    *)
(***************************************************************************)
CompleteWalk == [i \in 1..NumItems |-> i]

NewestRebuildFinished ==
    /\ main_pc = "idle"
    /\ index_workers[index_seq].pc = "done"

\* C19: once the worker of the most recently issued rebuild has finished
\* (and the UI thread is not inside another rebuild_index call), is_indexing
\* is false and the Entry Store holds the complete enumeration of that
\* request; in particular no older worker's replace_index has cut the
\* newest worker's walk short.
C19_NewestRebuildComplete ==
    NewestRebuildFinished =>
        /\ ~indexer.is_indexing
        /\ indexer.entries = CompleteWalk

(***************************************************************************)
(* The cursor of a volume against the events applied for it                *)
(* (specification SpecUsn).                                                *)
(***************************************************************************)
RECURSIVE DeliveredBelow(_, _, _, _)
\* the events of the journal pages that end at or below the cursor last_usn
DeliveredBelow(pages, root_frn, last_usn, k) ==
    IF k > Len(pages) THEN <<>>
    ELSE (IF pages[k].next_usn <= last_usn
          THEN PageEvents(pages[k].records, root_frn, 1)
          ELSE <<>>)
         \o DeliveredBelow(pages, root_frn, last_usn, k + 1)

\* C20: whenever try_apply_usn_incremental has returned Ok, for every sync
\* state the create / delete / rename events the journal delivered below the
\* state's last_usn are exactly the events that were applied to the entries:
\* last_usn is never past an event that was not applied.
C20_CursorNeverPastUnapplied ==
    usn_result = "Ok" =>
        \A i \in 1..Len(usn_states) :
            DeliveredBelow(usn_volumes[usn_states[i].drive].pages, usn_states[i].root_frn,
                           usn_states[i].last_usn, 1) = usn_applied[i]

(***************************************************************************)
(* Paths against parent links (specification SpecApply).                   *)
(***************************************************************************)
\* entry i of `entries` has the path of its parent, '/', and its name, the
\* parent being the volume root or an entry of the volume present in `entries`
PathFromParent(entries, drive, root_frn, i) ==
    \/ /\ entries[i].parent_frn = root_frn
       /\ entries[i].path = <<drive, ":", "/">> \o entries[i].name
    \/ \E j \in IndicesOf(entries, drive, entries[i].parent_frn) :
          entries[i].path = Append(entries[j].path, "/") \o entries[i].name

PathsConsistent(entries, drive, root_frn) ==
    \A i \in 1..Len(entries) :
        (entries[i].drive = drive /\ entries[i].frn /= 0) =>
            PathFromParent(entries, drive, root_frn, i)

\* C21: when apply_events_for_drive starts from an entry set whose paths are
\* consistent, then after every event it has applied each remaining entry of
\* the volume with a non-zero frn has the path of its parent joined with '/'
\* and its name, the parent being the volume root or an entry still present.
C21_PathsFollowParents ==
    (/\ ap_pc \in {"events", "done"}
     /\ PathsConsistent(ap_entries0, ap_state.drive, ap_state.root_frn)) =>
        PathsConsistent(ap_entries, ap_state.drive, ap_state.root_frn)

(***************************************************************************)
(* The lowercase projections of an entry.                                  *)
(***************************************************************************)
LowerConsistent(e) ==
    /\ e.name_lower = lowercase_for_search(e.name)
    /\ e.path_lower = lowercase_for_search(e.path)

AllLowerConsistent(entries) ==
    \A i \in 1..Len(entries) : LowerConsistent(entries[i])

\* C22: every entry has name_lower equal to the lowercase of name and
\* path_lower equal to the lowercase of path after each operation that
\* creates or changes entries: the walk and the drive enumeration, the
\* incremental create / rename / prefix rewrite (given entries that had the
\* property), and load_cache of a compact or a legacy file.
C22_LowerProjections ==
    /\ AllLowerConsistent(en_all_entries)
    /\ AllLowerConsistent(en_result.entries)
    /\ AllLowerConsistent(ap_entries0) => AllLowerConsistent(ap_entries)
    /\ loaded.ok => AllLowerConsistent(loaded.entries)

(***************************************************************************)
(* Create events (specification SpecApply).                                *)
(***************************************************************************)
IsCreateOnly(ev) ==
    /\ "FILE_CREATE" \in ev.reason
    /\ "FILE_DELETE" \notin ev.reason
    /\ "RENAME_NEW_NAME" \notin ev.reason

\* applying ev a second time to the state the loop is in changes nothing
AppliedTwiceSame(st, drive, root_frn, ev) ==
    apply_event(apply_event(st, drive, root_frn, ev), drive, root_frn, ev).entries
        = apply_event(st, drive, root_frn, ev).entries

\* C23: a create event whose frn is already present on the volume leaves
\* the entry set unchanged, and applying a create event twice gives the
\* entry set that applying it once gives.
C23_CreateIdempotent ==
    /\ (Stepped /\ IsCreateOnly(LastEvent)
          /\ IndicesOf(ap_before, ap_state.drive, LastEvent.frn) /= {}) =>
            ap_entries = ap_before
    /\ ap_pc = "events" =>
          \A ev \in ApplyEventsOfC :
              IsCreateOnly(ev) =>
                  AppliedTwiceSame([entries |-> ap_entries, frn_to_idx |-> ap_frn_to_idx],
                                   ap_state.drive, ap_state.root_frn, ev)

(***************************************************************************)
(* The cap on the events of one read (specification SpecUsn).              *)
(***************************************************************************)
\* C24: read_usn_events never holds more than MAX_USN_EVENTS events while it
\* goes on reading nor when it returns Ok (usn_pc = "apply"): it returns the
\* error as soon as the count exceeds the cap, and then no event of that
\* read has been applied to the entries.
C24_CapOnEvents ==
    /\ usn_pc \in {"read", "apply"} => Len(usn_events) + usn_bulk <= MAX_USN_EVENTS
    /\ usn_result = "TooManyChanges" =>
          /\ Len(usn_events) + usn_bulk > MAX_USN_EVENTS
          /\ usn_applied[usn_i] = <<>>
          /\ usn_entries =
                (IF usn_i = 1 THEN usn_entries0
                 ELSE apply_events_for_drive(usn_entries0, usn_states[1], usn_applied[1]))

\* the read of the second volume exceeded the cap after the events of the
\* first volume had been applied and had changed the entries
C24_Witness ==
    /\ usn_result = "TooManyChanges"
    /\ usn_i = 2
    /\ usn_applied[1] /= <<>>
    /\ usn_entries /= usn_entries0
    /\ usn_page = 2

(***************************************************************************)
(* Short tokens in fuzzy mode (specification SpecFuzzy).                   *)
(***************************************************************************)
IsShortToken(q) == Len(fz_tokens[q]) <= 2

\* C25: in fuzzy mode a token of one or two characters is reported as
\* matching only with its characters adjacent in the haystack (it stands at
\* first .. last as a substring); when the characters fuzzy_match picked
\* have a gap between them the token is reported as not matching.
C25_ShortTokensGapFree ==
    fz_pc = "done" =>
        \A q \in 1..Len(fz_tokens) :
            IsShortToken(q) =>
                /\ TokenMatches(q).found =>
                      /\ TokenMatches(q).last = TokenMatches(q).first + Len(fz_tokens[q]) - 1
                      /\ SubSeq(fz_haystack, TokenMatches(q).first + 1,
                                TokenMatches(q).last + 1) = fz_tokens[q]
                /\ (fuzzy_match(fz_haystack, fz_tokens[q]).found
                      /\ fuzzy_match(fz_haystack, fz_tokens[q]).gaps > 0) =>
                        ~TokenMatches(q).found

\* a query with a short token matched without a gap and a short token whose
\* characters are found with a gap
C25_Witness ==
    /\ fz_pc = "done"
    /\ \E q \in 1..Len(fz_tokens) :
          IsShortToken(q) /\ TokenMatches(q).found /\ Len(fz_tokens[q]) = 2
    /\ \E q \in 1..Len(fz_tokens) :
          /\ IsShortToken(q)
          /\ fuzzy_match(fz_haystack, fz_tokens[q]).found
          /\ fuzzy_match(fz_haystack, fz_tokens[q]).gaps > 0
          /\ ~TokenMatches(q).found

\* C26: in fuzzy mode a two-character token that occurs as a contiguous
\* substring of the haystack is reported as matching, whatever precedes
\* that occurrence.
C26_ContiguousAlwaysMatches ==
    fz_pc = "done" =>
        \A q \in 1..Len(fz_tokens) :
            (Len(fz_tokens[q]) = 2 /\ contains(fz_haystack, fz_tokens[q])) =>
                TokenMatches(q).found

(***************************************************************************)
(* Field priority of Searcher::search (specification SpecSearch).          *)
(***************************************************************************)
NameScore(entry) == tokens_score(sr_options, NameHaystack(sr_options, entry), sr_tokens)

PathScore(entry) == tokens_score(sr_options, PathHaystack(sr_options, entry), sr_tokens)

\* the result item search reports for the entry at index `tie`
ReportedFrom(item, field_score, match_type) ==
    /\ field_score.some
    /\ item.match_type = match_type
    /\ item.score = final_score(sr_entries[item.tie + 1], field_score.score, match_type)

\* C27: with path_search off an entry whose name matches is reported as
\* kind Name with the score of its name alone, and as kind Path only when
\* its name does not match and its path does; with path_search on every
\* result has kind Path and the score of its path; and for the same match
\* score and name length the Name score is strictly above the Path score.
C27_FieldPriority ==
    (sr_pc = "done" /\ Len(sr_tokens) > 0) =>
        /\ \A r \in 1..Len(sr_out) :
              IF sr_options.path_search
              THEN ReportedFrom(sr_out[r], PathScore(sr_entries[sr_out[r].tie + 1]), "Path")
              ELSE IF NameScore(sr_entries[sr_out[r].tie + 1]).some
              THEN ReportedFrom(sr_out[r], NameScore(sr_entries[sr_out[r].tie + 1]), "Name")
              ELSE ReportedFrom(sr_out[r], PathScore(sr_entries[sr_out[r].tie + 1]), "Path")
        /\ \A i, j \in 1..Len(sr_entries) :
              (Len(sr_entries[i].name) = Len(sr_entries[j].name) /\ PathScore(sr_entries[j]).some) =>
                  final_score(sr_entries[i], PathScore(sr_entries[j]).score, "Name")
                      > final_score(sr_entries[j], PathScore(sr_entries[j]).score, "Path")

\* a search with path_search off that reports an entry by its name, whose
\* path matches as well, and another entry by its path
C27_Witness ==
    /\ sr_pc = "done"
    /\ ~sr_options.path_search
    /\ \E r \in 1..Len(sr_out) :
          /\ sr_out[r].match_type = "Name"
          /\ PathScore(sr_entries[sr_out[r].tie + 1]).some
    /\ \E r \in 1..Len(sr_out) : sr_out[r].match_type = "Path"

(***************************************************************************)
(* Path resolution after the bulk enumeration (specification SpecPath):    *)
(* the `for (frn, node) in nodes.iter()` loop of try_enumerate_drive_root  *)
(* with build_full_path, one iteration of the `for` per step.  The order   *)
(* in which a HashMap yields its keys is not specified; pt_order is the    *)
(* beginning of one such order, at most MaxVisits keys long.               *)
(***************************************************************************)
MaxVisits == 3

MftNode(parent, attrs, name) == [parent |-> parent, name |-> name, attrs |-> attrs]

\* a directory, a file in it, and the record of the volume root itself
PlainNodes ==
    [f \in {1, 2, 3} |->
        CASE f = 1 -> MftNode(1, {"DIRECTORY"}, <<".">>)
          [] f = 2 -> MftNode(1, {"DIRECTORY"}, <<"d">>)
          [] f = 3 -> MftNode(2, {}, <<"T">>)]

\* two records that name each other as parent, and a file of the root
CycleNodes ==
    [f \in {2, 3, 4} |->
        CASE f = 2 -> MftNode(3, {"DIRECTORY"}, <<"d">>)
          [] f = 3 -> MftNode(2, {"DIRECTORY"}, <<"T">>)
          [] f = 4 -> MftNode(1, {"HIDDEN"}, <<"x">>)]

\* a record that is its own parent, one with parent 0, one whose parent was
\* not enumerated, and a child of the first
OddNodes ==
    [f \in {2, 3, 4, 5} |->
        CASE f = 2 -> MftNode(2, {"DIRECTORY"}, <<"d">>)
          [] f = 3 -> MftNode(0, {}, <<"T">>)
          [] f = 4 -> MftNode(9, {}, <<"x">>)
          [] f = 5 -> MftNode(2, {}, <<"y">>)]

\* the frn of the innermost directory of DeepNodes
DeepestFrn == MAX_PATH_DEPTH + 2

\* directories nested MAX_PATH_DEPTH + 1 deep below the root: the chain of
\* frn f has f - 1 links
DeepNodes == [f \in 2..DeepestFrn |-> MftNode(f - 1, {"DIRECTORY"}, <<"d">>)]

\* the sequences of Min(n, |S|) distinct elements of S
InjectiveSeqs(S, n) ==
    {q \in [1..Min(n, Cardinality(S)) -> S] :
        \A i, j \in 1..Min(n, Cardinality(S)) : i < j => q[i] /= q[j]}

\* the node maps of the model with the iteration orders followed for each
PathInputs ==
    UNION {{[nodes |-> m, order |-> q] : q \in InjectiveSeqs(DOMAIN m, MaxVisits)} :
             m \in {PlainNodes, CycleNodes, OddNodes}}
    \cup {[nodes |-> DeepNodes, order |-> <<DeepestFrn>> \o q] :
            q \in InjectiveSeqs({2, 3}, MaxVisits - 1)}

\* a build_full_path without its depth guard
DepthNeverExceeded(depth) == FALSE

\* depth > 4096
DepthExceeded(depth) == depth > MAX_PATH_DEPTH

\* the locals of build_full_path when it enters its `loop`
PathLoopStart(frn) ==
    [status |-> "running", cur |-> frn, depth |-> 0, chain |-> <<>>, base |-> <<>>,
     gave_up |-> FALSE]

\* one iteration of the `loop` of build_full_path: it breaks with a base
\* ("base"), returns None ("none") or goes on ("running")
PathLoopStep(s, nodes, cache, root_frn, drive) ==
    IF s.status /= "running" THEN s
    ELSE IF s.cur \in DOMAIN cache
    THEN [s EXCEPT !.status = "base", !.base = cache[s.cur]]
    ELSE IF s.cur = root_frn
    THEN [s EXCEPT !.status = "base", !.base = <<drive, ":", "/">>]
    ELSE IF s.cur \notin DOMAIN nodes
    THEN [s EXCEPT !.status = "none"]
    ELSE IF nodes[s.cur].parent = 0 \/ nodes[s.cur].parent = s.cur
    THEN [s EXCEPT !.status = "base", !.base = <<drive, ":", "/">>,
                   !.chain = Append(s.chain, s.cur)]
    ELSE IF DepthExceeded(s.depth + 1)
    THEN [s EXCEPT !.status = "none", !.gave_up = TRUE]
    ELSE [s EXCEPT !.chain = Append(s.chain, s.cur), !.cur = nodes[s.cur].parent,
                   !.depth = s.depth + 1]

RECURSIVE PathLoopRun(_, _, _, _, _, _)
\* up to n iterations of the `loop`, as n \div 2 iterations followed by the
\* rest (halving keeps the evaluation shallow for long chains)
PathLoopRun(s, n, nodes, cache, root_frn, drive) ==
    IF s.status /= "running" \/ n = 0 THEN s
    ELSE IF n = 1 THEN PathLoopStep(s, nodes, cache, root_frn, drive)
    ELSE CHOOSE r \in UNION {{PathLoopRun(m, n - h, nodes, cache, root_frn, drive) :
                                  m \in {PathLoopRun(s, h, nodes, cache, root_frn, drive)}} :
                               h \in {n \div 2}} :
             TRUE

RECURSIVE AssembleChain(_, _, _, _, _, _, _)
\* `for id in chain.iter().rev()`: the path of every key of the chain is
\* built from the base and cached; `ok` is FALSE when nodes.get(id)? returns
AssembleChain(chain, k, path, cache, nodes, root_frn, drive) ==
    IF k = 0 THEN [ok |-> TRUE, cache |-> cache]
    ELSE IF chain[k] = root_frn
    THEN AssembleChain(chain, k - 1, path, MapInsert(cache, root_frn, <<drive, ":", "/">>),
                       nodes, root_frn, drive)
    ELSE IF chain[k] \notin DOMAIN nodes THEN [ok |-> FALSE, cache |-> cache]
    ELSE AssembleChain(chain, k - 1, AsPrefix(path) \o nodes[chain[k]].name,
                       MapInsert(cache, chain[k], AsPrefix(path) \o nodes[chain[k]].name),
                       nodes, root_frn, drive)

\* what build_full_path does once its `loop` is in state s: "running" when
\* the loop has not ended, otherwise the returned Option, the cache it
\* leaves and whether the depth guard made it return
PathLoopOutcome(s, frn, nodes, cache, root_frn, drive) ==
    IF s.status = "running"
    THEN [returned |-> FALSE, some |-> FALSE, path |-> <<>>, cache |-> cache,
          gave_up |-> FALSE]
    ELSE IF s.status = "none"
    THEN [returned |-> TRUE, some |-> FALSE, path |-> <<>>, cache |-> cache,
          gave_up |-> s.gave_up]
    ELSE LET r == AssembleChain(s.chain, Len(s.chain), s.base, cache, nodes, root_frn, drive)
         IN  [returned |-> TRUE, some |-> r.ok /\ frn \in DOMAIN r.cache,
              path |-> IF r.ok /\ frn \in DOMAIN r.cache THEN r.cache[frn] ELSE <<>>,
              cache |-> r.cache, gave_up |-> FALSE]

\* build_full_path with its cache.  Each iteration of the `loop` that goes
\* on adds one to depth, so MAX_PATH_DEPTH + 1 iterations end a guarded loop.
build_full_path_cached(frn, root_frn, drive, nodes, cache) ==
    IF frn \in DOMAIN cache
    THEN [returned |-> TRUE, some |-> TRUE, path |-> cache[frn], cache |-> cache,
          gave_up |-> FALSE]
    ELSE CHOOSE r \in {PathLoopOutcome(s, frn, nodes, cache, root_frn, drive) :
                         s \in {PathLoopRun(PathLoopStart(frn), MAX_PATH_DEPTH + 1, nodes,
                                            cache, root_frn, drive)}} :
             TRUE

\* one iteration of `for (frn, node) in nodes.iter()`, or the end of the loop
PathForNext ==
    /\ pt_pc = "for"
    /\ pt_pos < Len(pt_order)
    /\ pt_pos' = pt_pos + 1
    /\ IF pt_order[pt_pos + 1] = EnumRootFrn
       THEN UNCHANGED <<pt_pc, pt_cache, pt_entries, pt_gave_up>>
       ELSE \E r \in {build_full_path_cached(pt_order[pt_pos + 1], EnumRootFrn, EnumDrive,
                                             pt_nodes, pt_cache)} :
               /\ pt_pc' = IF r.returned THEN "for" ELSE "loop"
               /\ pt_cache' = r.cache
               /\ pt_entries' = IF r.some
                                THEN Append(pt_entries,
                                            DriveEntry(pt_order[pt_pos + 1],
                                                       pt_nodes[pt_order[pt_pos + 1]],
                                                       EnumDrive, r.path))
                                ELSE pt_entries
               /\ pt_gave_up' = IF r.gave_up THEN pt_gave_up \cup {pt_order[pt_pos + 1]}
                                ELSE pt_gave_up
    /\ UNCHANGED <<pt_nodes, pt_order>>
    /\ UNCHANGED nonPathVars

\* the `for` loop has taken every key
PathForEnd ==
    /\ pt_pc = "for"
    /\ pt_pos = Len(pt_order)
    /\ pt_pc' = "returned"
    /\ UNCHANGED <<pt_nodes, pt_order, pt_pos, pt_cache, pt_entries, pt_gave_up>>
    /\ UNCHANGED nonPathVars

InitPath ==
    /\ AppParked
    /\ CacheParked
    /\ SearchParked
    /\ FuzzyParked
    /\ UsnParked
    /\ ApplyParked
    /\ EnumParked
    /\ PageParked
    /\ \E input \in PathInputs :
          /\ pt_nodes = input.nodes
          /\ pt_order = input.order
    /\ pt_pc = "for"
    /\ pt_pos = 0
    /\ pt_cache = MapInsert(<<>>, EnumRootFrn, <<EnumDrive, ":", "/">>)
    /\ pt_entries = <<>>
    /\ pt_gave_up = {}

NextPath ==
    \/ PathForNext
    \/ PathForEnd

\* the function runs on one thread that nothing blocks: a step that is
\* possible is eventually taken
SpecPath == InitPath /\ [][NextPath]_vars /\ WF_vars(NextPath)

\* the parent of `cur`, as far as the records tell; the root, a key without
\* a record and frn 0 have none
ParentOf(cur) ==
    IF cur \in DOMAIN pt_nodes /\ cur /= EnumRootFrn THEN pt_nodes[cur].parent ELSE cur

RECURSIVE AncestorOf(_, _)
\* the key k links above `cur`: k \div 2 links up to a key m, then the rest
\* from m (halving keeps the evaluation shallow for long chains)
AncestorOf(cur, k) ==
    IF k = 0 THEN cur
    ELSE IF k = 1 THEN ParentOf(cur)
    ELSE CHOOSE a \in UNION {{AncestorOf(m, k - h) : m \in {AncestorOf(cur, h)}} :
                               h \in {k \div 2}} :
             TRUE

\* the parent chain of frn arrives at the volume root after at most n links
\* (ParentOf stays at the root, and a chain that arrives does so before it
\* has used more links than there are records)
ReachesRootWithin(frn, n) ==
    AncestorOf(frn, Min(n, Cardinality(DOMAIN pt_nodes))) = EnumRootFrn

\* the parent chain of frn goes on for ever: it never arrives at the root,
\* at a key without a record or at a record that is its own parent (ParentOf
\* stays at each of these), so it is still moving after as many links as
\* there are records
ChainNeverEnds(frn) ==
    \E a \in {AncestorOf(frn, Cardinality(DOMAIN pt_nodes))} : ParentOf(a) /= a

Emitted(frn) == \E j \in 1..Len(pt_entries) : pt_entries[j].frn = frn

\* the keys other than the root that the `for` loop has dealt with
VisitedFrns ==
    {pt_order[i] : i \in 1..(IF pt_pc = "loop" THEN pt_pos - 1 ELSE pt_pos)} \ {EnumRootFrn}

GuardedResolution ==
    /\ pt_pc /= "loop"
    /\ \A frn \in VisitedFrns :
          /\ ChainNeverEnds(frn) => frn \in pt_gave_up
          /\ frn \in pt_gave_up => ~Emitted(frn)

\* C28 as stated: path resolution terminates for every node map, parent
\* cycles included; build_full_path follows at most 4096 links, a key whose
\* chain goes on returns no path and its entry is dropped, and every key
\* whose chain arrives at the volume root has its entry in the result.
C28_EveryRootedEntryEmitted ==
    /\ [](GuardedResolution
            /\ \A frn \in VisitedFrns :
                  ReachesRootWithin(frn, Cardinality(DOMAIN pt_nodes)) => Emitted(frn))
    /\ <>(pt_pc = "returned")

\* C28: path resolution terminates for every node map, parent cycles
\* included; build_full_path follows at most 4096 links, a key whose chain
\* goes on returns no path and its entry is dropped, and every key whose
\* chain arrives at the volume root within 4096 links has its entry in the
\* result.
C28_GuardedPathResolution ==
    /\ [](GuardedResolution
            /\ \A frn \in VisitedFrns :
                  ReachesRootWithin(frn, MAX_PATH_DEPTH) => Emitted(frn))
    /\ <>(pt_pc = "returned")

\* a finished resolution that gave up on the two keys of a cycle and
\* emitted the entry of the root's file
C28_Witness ==
    /\ pt_pc = "returned"
    /\ \E frn \in pt_gave_up : ChainNeverEnds(frn)
    /\ Cardinality(pt_gave_up) = 2
    /\ \E frn \in VisitedFrns : ReachesRootWithin(frn, MAX_PATH_DEPTH) /\ Emitted(frn)

(***************************************************************************)
(* Failures inside build_index_snapshot (specification SpecEnum).          *)
(***************************************************************************)
IsWalkFailure(step) == ~(step.kind = "entry" /\ step.metadata_ok)

\* C30: a build_index_snapshot that is not cancelled returns, whatever
\* roots are missing and whatever directory entries or metadata cannot be
\* read: the failing steps contribute no entry, and every other item is in
\* the returned list, in the order of the walk.
C30_FailuresAreSkipped ==
    (en_kind = "walk" /\ en_pc = "returned" /\ ~en_cancelled) =>
        /\ en_result.status = "Ok"
        /\ en_pos = Len(en_input)
        /\ en_result.entries = WalkedEntries(en_input, Len(en_input))
        /\ Len(en_result.entries)
              = Cardinality({i \in 1..Len(en_input) : ~IsWalkFailure(en_input[i])})

\* a finished walk that met a failure and indexed an item after it
C30_Witness ==
    /\ en_kind = "walk"
    /\ en_pc = "returned"
    /\ ~en_cancelled
    /\ \E i, j \in 1..Len(en_input) :
          /\ i < j
          /\ IsWalkFailure(en_input[i])
          /\ ~IsWalkFailure(en_input[j])
          /\ en_result.entries = <<walk_entry(en_input[j].item)>>

(***************************************************************************)
(* Parsing one page of records (specification SpecPage): the               *)
(* `while offset + size_of::<USN_RECORD_V2>() <= bytes_returned` loops of  *)
(* try_enumerate_drive_root and read_usn_events, one record per step.  The *)
(* content of the buffer is arbitrary: each step reads, at `offset`, some  *)
(* header of PageHeaders.  The record lengths of the model are 0 or at     *)
(* least the size of the header, so the headers read do not overlap and    *)
(* every choice is the content of some buffer.  The buffer starts at an    *)
(* address that is a multiple of the record alignment, as the allocator    *)
(* returns it.                                                             *)
(***************************************************************************)
MaxPageRecords == 3

\* size_of::<USN_RECORD_V2>(): 60 bytes of fields, padded to the alignment
USN_RECORD_V2_SIZE == 64

\* align_of::<USN_RECORD_V2>(): that of its u64 fields
USN_RECORD_V2_ALIGN == 8

\* size_of::<u64>(), size_of::<i64>(): the first record follows the next
\* start position
PageFirstOffset == 8

PageHeader(record_length, major_version, frn, reason, file_name_length, file_name_offset) ==
    [record_length |-> record_length, major_version |-> major_version, frn |-> frn,
     reason |-> reason, file_name_length |-> file_name_length,
     file_name_offset |-> file_name_offset]

PageHeaders ==
    { PageHeader(72, 2, 2, {"FILE_CREATE"}, 4, 60),
      PageHeader(64, 2, 3, {"FILE_DELETE"}, 2, 60),
      PageHeader(0, 2, 2, {"FILE_CREATE"}, 4, 60),
      PageHeader(4096, 2, 2, {"FILE_CREATE"}, 4, 60),
      PageHeader(72, 3, 2, {"FILE_CREATE"}, 4, 60),
      PageHeader(72, 2, 2, {}, 4, 60),
      PageHeader(72, 2, 2, {"RENAME_OLD_NAME"}, 4, 60),
      PageHeader(72, 2, 1, {"RENAME_NEW_NAME"}, 4, 60),
      PageHeader(72, 2, 2, {"FILE_CREATE"}, 0, 60),
      PageHeader(72, 2, 2, {"FILE_CREATE"}, 1, 60),
      PageHeader(72, 2, 2, {"FILE_CREATE"}, 40, 60),
      PageHeader(72, 2, 2, {"FILE_CREATE"}, 4, 70),
      PageHeader(72, 2, 2, {"FILE_CREATE"}, 4, 61),
      PageHeader(68, 2, 2, {"FILE_CREATE"}, 4, 60) }

\* the values of bytes_returned: room for less than one header, or for up to
\* MaxPageRecords records, with or without four more bytes
PageSizes ==
    {PageFirstOffset + 32}
    \cup {PageFirstOffset + (USN_RECORD_V2_SIZE * k) + d : k \in 1..MaxPageRecords, d \in {0, 4}}

\* record_len == 0 || offset + record_len > bytes_returned
EndsPage(h, offset, bytes_returned) ==
    h.record_length = 0 \/ offset + h.record_length > bytes_returned

\* the records the journal loop passes over before it looks at the name
JournalSkips(h, root_frn) ==
    \/ h.reason \cap {"FILE_CREATE", "FILE_DELETE", "RENAME_NEW_NAME", "RENAME_OLD_NAME"} = {}
    \/ "RENAME_OLD_NAME" \in h.reason /\ "RENAME_NEW_NAME" \notin h.reason
    \/ h.frn = root_frn

\* name_len_bytes > 0 && name_off + name_len_bytes <= record_len
NameFits(h) ==
    h.file_name_length > 0 /\ h.file_name_offset + h.file_name_length <= h.record_length

\* one iteration of the record loop on the header h read at `offset`: the
\* page ends ("end"), the record is passed over ("skip") or it gives a node
\* or an event ("emit"); name_read tells whether the name slice was made
parse_record(kind, h, offset, bytes_returned, root_frn) ==
    IF EndsPage(h, offset, bytes_returned)
    THEN [outcome |-> "end", name_read |-> FALSE]
    ELSE IF h.major_version /= 2
    THEN [outcome |-> "skip", name_read |-> FALSE]
    ELSE IF kind = "journal" /\ JournalSkips(h, root_frn)
    THEN [outcome |-> "skip", name_read |-> FALSE]
    ELSE IF ~NameFits(h)
    THEN [outcome |-> "skip", name_read |-> FALSE]
    ELSE IF h.file_name_length \div 2 = 0
    THEN [outcome |-> "skip", name_read |-> TRUE]
    ELSE [outcome |-> "emit", name_read |-> TRUE]

\* `*record_ptr` with record_ptr = buffer + offset
HeaderMisaligned(offset) == offset % USN_RECORD_V2_ALIGN /= 0

\* slice::from_raw_parts(name_ptr as *const u16, ..) with
\* name_ptr = buffer + offset + name_off
NameMisaligned(h, offset) == (offset + h.file_name_offset) % 2 /= 0

PageLogEntry(offset, h, outcome, name_read) ==
    [offset |-> offset, header |-> h, outcome |-> outcome, name_read |-> name_read]

\* One iteration of the while loop.  Dereferencing a pointer that is not
\* aligned for its type is undefined behaviour: the read may go through, as
\* on a target whose loads need no alignment, or the program panics at the
\* dereference, as a build with debug assertions does.
PageReadRecord ==
    /\ pg_pc = "loop"
    /\ pg_offset + USN_RECORD_V2_SIZE <= pg_bytes_returned
    /\ \E h \in PageHeaders :
          \E r \in {parse_record(pg_kind, h, pg_offset, pg_bytes_returned, EnumRootFrn)} :
             \/ /\ pg_log' = Append(pg_log, PageLogEntry(pg_offset, h, r.outcome, r.name_read))
                /\ pg_pc' = IF r.outcome = "end" THEN "done" ELSE "loop"
                /\ pg_offset' = IF r.outcome = "end" THEN pg_offset
                                ELSE pg_offset + h.record_length
                /\ pg_out' = IF r.outcome = "emit"
                             THEN Append(pg_out, [frn |-> h.frn,
                                                  name_len |-> h.file_name_length \div 2])
                             ELSE pg_out
             \/ /\ HeaderMisaligned(pg_offset) \/ (r.name_read /\ NameMisaligned(h, pg_offset))
                /\ pg_log' = Append(pg_log,
                                    PageLogEntry(pg_offset, h, "panic",
                                                 r.name_read /\ ~HeaderMisaligned(pg_offset)))
                /\ pg_pc' = "panicked"
                /\ UNCHANGED <<pg_offset, pg_out>>
    /\ UNCHANGED <<pg_kind, pg_bytes_returned>>
    /\ UNCHANGED nonPageVars

\* the while condition is false: the page is done
PageLoopEnd ==
    /\ pg_pc = "loop"
    /\ pg_offset + USN_RECORD_V2_SIZE > pg_bytes_returned
    /\ pg_pc' = "done"
    /\ UNCHANGED <<pg_kind, pg_bytes_returned, pg_offset, pg_out, pg_log>>
    /\ UNCHANGED nonPageVars

InitPage ==
    /\ AppParked
    /\ CacheParked
    /\ SearchParked
    /\ FuzzyParked
    /\ UsnParked
    /\ ApplyParked
    /\ EnumParked
    /\ PathParked
    /\ pg_kind \in {"mft", "journal"}
    /\ pg_pc = "loop"
    /\ pg_bytes_returned \in PageSizes
    /\ pg_offset = PageFirstOffset
    /\ pg_out = <<>>
    /\ pg_log = <<>>

NextPage ==
    \/ PageReadRecord
    \/ PageLoopEnd

SpecPage == InitPage /\ [][NextPage]_vars

\* no header is read beyond the bytes returned, no name outside the declared
\* length of its record, and the offsets of the headers read grow
PageReadsInBounds ==
    \A i \in 1..Len(pg_log) :
        /\ pg_log[i].offset + USN_RECORD_V2_SIZE <= pg_bytes_returned
        /\ pg_log[i].name_read =>
              /\ pg_log[i].header.file_name_offset
                    + 2 * (pg_log[i].header.file_name_length \div 2)
                       <= pg_log[i].header.record_length
              /\ pg_log[i].offset + pg_log[i].header.record_length <= pg_bytes_returned
        /\ i > 1 => pg_log[i].offset > pg_log[i - 1].offset

\* a record with length 0 or a length that overruns the page ends the page;
\* a record whose name does not fit gives no node and no event
PageMalformedHandled ==
    /\ \A i \in 1..Len(pg_log) :
          /\ (pg_log[i].outcome /= "panic"
                /\ EndsPage(pg_log[i].header, pg_log[i].offset, pg_bytes_returned)) =>
                (pg_log[i].outcome = "end" /\ i = Len(pg_log) /\ pg_pc = "done")
          /\ ~NameFits(pg_log[i].header) =>
                (pg_log[i].outcome /= "emit" /\ ~pg_log[i].name_read)
    /\ Len(pg_out) = Cardinality({i \in 1..Len(pg_log) : pg_log[i].outcome = "emit"})

\* C29: for every content of the buffer the parse of a page reads no header
\* beyond the bytes returned and no name outside its record, ends the page
\* at a record of length 0 or one that overruns the page, passes over a
\* record whose name does not fit without an entry or event, and comes to
\* the end of the page: it neither fails nor stops anywhere else.
C29_PageParseSafe ==
    /\ PageReadsInBounds
    /\ PageMalformedHandled
    /\ pg_pc /= "panicked"

=============================================================================
